---- MODULE Spec2Model ----
(***************************************************************************)
(* public-asset-link: the asset classification and code generation engine  *)
(* of src/src/generator.ts, the configuration loader of src/src/config.ts  *)
(* and the init and generate commands of src/src/index.ts, as a state      *)
(* machine.                                                                *)
(*                                                                         *)
(* A JavaScript string is a sequence of one-character strings, so that     *)
(* every regular expression, split, join and case conversion of the code   *)
(* is computed character by character.                                     *)
(***************************************************************************)
EXTENDS Integers, Sequences, FiniteSets, TLC

VARIABLES
  files,      \* the files argument of the running generateAssetVariables call
  config,     \* its config argument
  idx,        \* position of files.forEach in groupAssetsByDirectory
  result,     \* the AssetGroup `result` under construction
  status,     \* "running" | "done" | "error"
  output,     \* the text returned by generateAssetVariables
  calls,      \* the invocations of the user callbacks made by this call
  processed,  \* what each forEach iteration of this call did
  reinvoked,  \* whether generateAssetVariables was called before this call
  thrown,     \* the exception that left the call, "none" while there is none
  pc,         \* where the command line program is: see the CLI section
  fsys,       \* the files the command line program reads and writes
  logged,     \* what the running command wrote to the console
  optionsConfig, \* the --config option of the running command
  watcher     \* the watch command: the generateAssetFiles calls in flight

vars == <<files, config, idx, result, status, output, calls, processed, reinvoked,
          thrown, pc, fsys, logged, optionsConfig, watcher>>

-----------------------------------------------------------------------------
(* Bounds *)

MaxFiles == 3

\* the file system events a run of the watch command sees
MaxEvents == 2

-----------------------------------------------------------------------------
(* Characters and strings *)

LowerLetters == <<"a","b","c","d","e","f","g","h","i","j","k","l","m",
                  "n","o","p","q","r","s","t","u","v","w","x","y","z">>

UpperLetters == <<"A","B","C","D","E","F","G","H","I","J","K","L","M",
                  "N","O","P","Q","R","S","T","U","V","W","X","Y","Z">>

DigitChars == <<"0","1","2","3","4","5","6","7","8","9">>

Range(s) == { s[i] : i \in 1..Len(s) }

IndexOf(s, c) == CHOOSE i \in 1..Len(s) : s[i] = c

toLowerCaseChar(c) ==
  IF c \in Range(UpperLetters) THEN LowerLetters[IndexOf(UpperLetters, c)] ELSE c

toUpperCaseChar(c) ==
  IF c \in Range(LowerLetters) THEN UpperLetters[IndexOf(LowerLetters, c)] ELSE c

toLowerCase(s) == [i \in 1..Len(s) |-> toLowerCaseChar(s[i])]

toUpperCase(s) == [i \in 1..Len(s) |-> toUpperCaseChar(s[i])]

\* s.slice(n) for n >= 0
slice(s, n) == SubSeq(s, n + 1, Len(s))

\* s.charAt(0): the empty string when s is empty
charAt0(s) == IF Len(s) = 0 THEN <<>> ELSE <<s[1]>>

endsWith(s, suffix) ==
  /\ Len(suffix) <= Len(s)
  /\ SubSeq(s, Len(s) - Len(suffix) + 1, Len(s)) = suffix

RECURSIVE split(_, _)
\* s.split(sep) for a one-character separator: always at least one part
split(s, sep) ==
  IF \A i \in 1..Len(s) : s[i] # sep
    THEN <<s>>
    ELSE LET i == CHOOSE j \in 1..Len(s) :
                    s[j] = sep /\ \A k \in 1..(j - 1) : s[k] # sep
         IN  <<SubSeq(s, 1, i - 1)>> \o split(SubSeq(s, i + 1, Len(s)), sep)

RECURSIVE join(_, _)
\* parts.join(sep)
join(parts, sep) ==
  IF Len(parts) = 0 THEN <<>>
  ELSE IF Len(parts) = 1 THEN parts[1]
  ELSE parts[1] \o sep \o join(Tail(parts), sep)

\* s.replace(/\\/g, '/')
normalizeSeparators(s) == [i \in 1..Len(s) |-> IF s[i] = "\\" THEN "/" ELSE s[i]]

-----------------------------------------------------------------------------
(* Node's path module (posix) *)

\* process.cwd()
Cwd == <<"/", "w">>

RECURSIVE normalizeSegments(_, _)
\* the segment stack of path.resolve: "" and "." are dropped, ".." pops
normalizeSegments(segs, acc) ==
  IF Len(segs) = 0 THEN acc
  ELSE LET s == Head(segs) IN
       IF s = <<>> \/ s = <<".">> THEN normalizeSegments(Tail(segs), acc)
       ELSE IF s = <<".", ".">>
         THEN normalizeSegments(Tail(segs),
                IF Len(acc) = 0 THEN acc ELSE SubSeq(acc, 1, Len(acc) - 1))
       ELSE normalizeSegments(Tail(segs), Append(acc, s))

\* path.resolve(from, to), as the list of segments of the absolute path
pathResolve(from, to) ==
  IF Len(to) > 0 /\ to[1] = "/"
    THEN normalizeSegments(split(to, "/"), <<>>)
    ELSE normalizeSegments(split(from, "/") \o split(to, "/"), <<>>)

RECURSIVE commonPrefixLen(_, _)
commonPrefixLen(a, b) ==
  IF Len(a) = 0 \/ Len(b) = 0 \/ Head(a) # Head(b) THEN 0
  ELSE 1 + commonPrefixLen(Tail(a), Tail(b))

\* path.relative(from, to) on two resolved segment lists
pathRelative(fromSegs, toSegs) ==
  LET k   == commonPrefixLen(fromSegs, toSegs)
      ups == [i \in 1..(Len(fromSegs) - k) |-> <<".", ".">>]
  IN  join(ups \o SubSeq(toSegs, k + 1, Len(toSegs)), <<"/">>)

RECURSIVE stripTrailingSlashes(_)
stripTrailingSlashes(p) ==
  IF Len(p) > 1 /\ p[Len(p)] = "/"
    THEN stripTrailingSlashes(SubSeq(p, 1, Len(p) - 1))
    ELSE p

\* path.basename(p)
pathBasename(p) ==
  LET q     == stripTrailingSlashes(p)
      parts == split(q, "/")
  IN  IF q = <<"/">> THEN <<>> ELSE parts[Len(parts)]

\* path.basename(p, ext)
pathBasenameExt(p, ext) ==
  LET b == pathBasename(p)
  IN  IF b # ext /\ endsWith(b, ext) THEN SubSeq(b, 1, Len(b) - Len(ext)) ELSE b

-----------------------------------------------------------------------------
(* Regular expressions built from the exclude patterns *)

RECURSIVE replaceStar(_)
\* pattern.replace(/\*/g, '.*')
replaceStar(p) ==
  IF Len(p) = 0 THEN <<>>
  ELSE (IF Head(p) = "*" THEN <<".", "*">> ELSE <<Head(p)>>) \o replaceStar(Tail(p))

RECURSIVE compileRegExp(_)
\* new RegExp(source): atoms ("." is any character), each with an optional "*"
compileRegExp(src) ==
  IF Len(src) = 0 THEN <<>>
  ELSE LET starred == Len(src) >= 2 /\ src[2] = "*"
           atom    == [any |-> src[1] = ".", ch |-> src[1], star |-> starred]
       IN  <<atom>> \o compileRegExp(slice(src, IF starred THEN 2 ELSE 1))

RECURSIVE groupDepth(_, _)
\* how many "(" of src are open at its end, negative once a ")" closes nothing
groupDepth(src, depth) ==
  IF Len(src) = 0 \/ depth < 0 THEN depth
  ELSE groupDepth(Tail(src), CASE Head(src) = "(" -> depth + 1
                                [] Head(src) = ")" -> depth - 1
                                [] OTHER           -> depth)

\* whether new RegExp(source) returns: it throws a SyntaxError for a character
\* class that is not closed and for parentheses that do not pair up
isValidRegExp(src) ==
  /\ groupDepth(src, 0) = 0
  /\ \A i \in 1..Len(src) :
        src[i] = "[" => \E j \in (i + 1)..Len(src) : src[j] = "]"

atomMatches(atom, c) == atom.any \/ atom.ch = c

RECURSIVE positionsAfter(_, _, _, _)
\* the positions of s a match can have reached after the atoms ri.. of re,
\* having reached one of the positions `at` before them
positionsAfter(re, ri, s, at) ==
  IF ri > Len(re) THEN at
  ELSE LET atom == re[ri]
           next == IF atom.star
                     THEN { q \in 1..(Len(s) + 1) :
                              \E p \in at :
                                /\ p <= q
                                /\ \A j \in p..(q - 1) : atomMatches(atom, s[j]) }
                     ELSE { p + 1 : p \in { x \in at :
                                              x <= Len(s) /\ atomMatches(atom, s[x]) } }
       IN  positionsAfter(re, ri + 1, s, next)

\* re.test(s): the expression is not anchored, a match may start anywhere
regExpTest(re, s) == positionsAfter(re, 1, s, 1..(Len(s) + 1)) # {}

-----------------------------------------------------------------------------
(* Configurations (src/src/types.ts) and the user callbacks they may carry *)

\* typeof x === 'undefined' for an absent field
Undefined == "undefined"

\* a field value that is neither undefined nor a function: the string 'x'
NotAFunction == "string"

\* typeof v === 'function'
isFunction(v) == v \notin {Undefined, NotAFunction}

\* a type guard that only looks for the field
isTsConfigFieldPresent(cfg) == cfg.pathToVariableName # Undefined

\* isTsConfig(config): a pathToVariableName field holding a function
isTsConfig(cfg) == isFunction(cfg.pathToVariableName)

PublicDir == <<".","/","p","u","b","l","i","c">>

\* user function: () => 'x'
nameFnConstX(filePath, relativePath) == <<"x">>

\* user function: (filePath, relativePath) => 'custom_' + path.basename(relativePath, '.png')
nameFnCustom(filePath, relativePath) ==
  <<"c","u","s","t","o","m","_">> \o pathBasenameExt(relativePath, <<".","p","n","g">>)

\* user function: (filePath, relativePath) => '/assets/' + relativePath
valueFnAssets(filePath, relativePath) == <<"/","a","s","s","e","t","s","/">> \o relativePath

\* user function: () => ''
valueFnEmpty(filePath, relativePath) == <<>>

\* user function: () => true
includeFnAll(filePath, relativePath) == TRUE

\* user function: (filePath) => !filePath.endsWith('.png')
includeFnNotPng(filePath, relativePath) == ~endsWith(filePath, <<".","p","n","g">>)

\* fileName.replace(/\.[^/.]+$/, '')
removeExtension(fileName) ==
  LET dots == { i \in 1..Len(fileName) : fileName[i] = "." }
  IN  IF dots = {} THEN fileName
      ELSE LET last == CHOOSE i \in dots : \A j \in dots : j <= i
           IN  IF /\ last < Len(fileName)
                  /\ \A j \in (last + 1)..Len(fileName) : fileName[j] # "/"
                 THEN SubSeq(fileName, 1, last - 1)
                 ELSE fileName

isWordChar(c) ==
  c \in Range(LowerLetters) \cup Range(UpperLetters) \cup Range(DigitChars) \cup {"_"}

\* processedName.replace(/[^a-zA-Z0-9_]/g, '_')
replaceInvalid(s) == [i \in 1..Len(s) |-> IF isWordChar(s[i]) THEN s[i] ELSE "_"]

\* part.charAt(0).toUpperCase() + part.slice(1).toLowerCase()
capitalize(part) == toUpperCase(charAt0(part)) \o toLowerCase(slice(part, 1))

\* the function of DEFAULT_TS_CONFIG and of the template `init --typescript`
\* writes: camelCase of the file name without its extension
nameFnCamel(filePath, relativePath) ==
  LET parts == split(replaceInvalid(removeExtension(pathBasename(relativePath))), "_")
  IN  join([i \in 1..Len(parts) |->
              IF i = 1 THEN toLowerCase(parts[i]) ELSE capitalize(parts[i])], <<>>)

\* the function of DEFAULT_TS_CONFIG: (filePath, relativePath) => '/' + relativePath
valueFnSlash(filePath, relativePath) == <<"/">> \o relativePath

\* the function of the template: (filePath, relativePath) => !relativePath.endsWith('.map')
includeFnNotMap(filePath, relativePath) == ~endsWith(relativePath, <<".","m","a","p">>)

\* user function: () => { throw new Error() }; the call does not return
throws(fn) == fn = "throws"

\* config.pathToVariableName(filePath, relativePath)
callPathToVariableName(fn, filePath, relativePath) ==
  CASE fn = "constX" -> nameFnConstX(filePath, relativePath)
    [] fn = "camel"  -> nameFnCamel(filePath, relativePath)
    [] OTHER         -> nameFnCustom(filePath, relativePath)

\* config.transformPathValue(filePath, relativePath)
callTransformPathValue(fn, filePath, relativePath) ==
  CASE fn = "assets" -> valueFnAssets(filePath, relativePath)
    [] fn = "slash"  -> valueFnSlash(filePath, relativePath)
    [] OTHER         -> valueFnEmpty(filePath, relativePath)

\* config.shouldIncludeFile(filePath, relativePath)
callShouldIncludeFile(fn, filePath, relativePath) ==
  CASE fn = "all"    -> includeFnAll(filePath, relativePath)
    [] fn = "notMap" -> includeFnNotMap(filePath, relativePath)
    [] OTHER         -> includeFnNotPng(filePath, relativePath)

\* the dotfile pattern of DEFAULT_JSON_CONFIG.excludePatterns
DotfilePattern == <<"*","*","/",".","*">>

\* DEFAULT_JSON_CONFIG.outputFile
OutputFile == <<".","/","s","r","c","/","g","e","n","e","r","a","t","e","d","/",
                "a","s","s","e","t","P","a","t","h","s",".","t","s">>

\* a pattern whose regular expression does not compile: '[*' gives /[.*/
UnclosedClassPattern == <<"[","*">>

\* a JsonConfig object
JsonConfig(ex, g, ns, ie, vp) ==
  [ publicDir                |-> PublicDir,
    outputFile               |-> OutputFile,
    excludePatterns          |-> ex,
    groupByDirectory         |-> g,
    namingStrategy           |-> ns,
    includeExtensionsInNames |-> ie,
    variablePrefix           |-> vp,
    pathToVariableName       |-> Undefined,
    transformPathValue       |-> Undefined,
    shouldIncludeFile        |-> Undefined ]

\* a TsConfig object; the JsonConfig fields it lacks read as undefined, which
\* is falsy: FALSE for the boolean and the empty string for the prefix
TsConfig(ex, g, nf, vf, sf) ==
  [ publicDir                |-> PublicDir,
    outputFile               |-> OutputFile,
    excludePatterns          |-> ex,
    groupByDirectory         |-> g,
    namingStrategy           |-> Undefined,
    includeExtensionsInNames |-> FALSE,
    variablePrefix           |-> <<>>,
    pathToVariableName       |-> nf,
    transformPathValue       |-> vf,
    shouldIncludeFile        |-> sf ]

AssetPrefix == <<"a","s","s","e","t","_">>

JsonConfigs ==
  { JsonConfig(<<>>, g, ns, ie, vp) :
      g \in BOOLEAN, ns \in {"camelCase", "PascalCase", "snake_case"},
      ie \in BOOLEAN, vp \in {<<>>, AssetPrefix} }
  \cup { JsonConfig(<<DotfilePattern>>, g, "camelCase", FALSE, <<>>) : g \in BOOLEAN }

\* the (transformPathValue, shouldIncludeFile) pairs the TsConfig objects carry
TsOptionalCallbacks ==
  { <<Undefined, Undefined>>, <<"assets", Undefined>>, <<"empty", Undefined>>,
    <<Undefined, "all">>, <<Undefined, "notPng">> }

TsConfigs ==
  { TsConfig(<<>>, g, nf, cb[1], cb[2]) :
      g \in BOOLEAN, nf \in {"constX", "custom"}, cb \in TsOptionalCallbacks }
  \cup { TsConfig(<<DotfilePattern>>, g, nf, Undefined, "all") :
           g \in BOOLEAN, nf \in {"constX", "custom"} }

\* TsConfig objects one of whose functions throws
ThrowingConfigs ==
  { TsConfig(<<>>, g, cb[1], cb[2], cb[3]) :
      g \in BOOLEAN,
      cb \in { <<"throws", Undefined, Undefined>>, <<"custom", "throws", Undefined>>,
               <<"custom", Undefined, "throws">> } }

\* configurations with an exclude pattern that is not a regular expression
InvalidPatternConfigs ==
  { JsonConfig(ex, g, "camelCase", FALSE, <<>>) :
      g \in BOOLEAN,
      ex \in { <<UnclosedClassPattern>>, <<DotfilePattern, UnclosedClassPattern>> } }

\* objects without a callable pathToVariableName that carry the two optional
\* functions of a TsConfig all the same
StaticConfigsWithCallbacks ==
  { [ JsonConfig(<<>>, g, "camelCase", FALSE, <<>>) EXCEPT
        !.pathToVariableName = nf,
        !.transformPathValue = "assets",
        !.shouldIncludeFile  = "notPng" ] :
      g \in BOOLEAN, nf \in {Undefined, NotAFunction} }

Configs ==
  JsonConfigs \cup TsConfigs \cup ThrowingConfigs \cup InvalidPatternConfigs
    \cup StaticConfigsWithCallbacks

-----------------------------------------------------------------------------
(* Input files: what glob returns for publicDir, absolute paths *)

PublicDirAbs == Cwd \o <<"/","p","u","b","l","i","c">>

RelImagePng   == <<"i","m","a","g","e",".","p","n","g">>
RelMyIconSvg  == <<"m","y","-","i","c","o","n",".","s","v","g">>
RelMyIconPng  == <<"M","y"," ","I","c","o","n",".","p","n","g">>
RelImagesIcon == <<"i","m","a","g","e","s","/","i","c","o","n",".","p","n","g">>
RelAssetsIcon == <<"a","s","s","e","t","s","/","i","c","o","n",".","p","n","g">>
RelImagesTxt  == <<"i","m","a","g","e","s",".","t","x","t">>

RelPool == { RelImagePng, RelMyIconSvg, RelMyIconPng, RelImagesIcon,
             RelAssetsIcon, RelImagesTxt }

AbsPath(rel) == PublicDirAbs \o <<"/">> \o rel

FilePool == { AbsPath(rel) : rel \in RelPool }

\* a scan lists every file once, in any order
FileLists ==
  { fs \in UNION { [1..n -> FilePool] : n \in 0..MaxFiles } :
      \A i, j \in 1..Len(fs) : fs[i] = fs[j] => i = j }

-----------------------------------------------------------------------------
(* src/src/generator.ts *)

getRelativePath(filePath, cfg) ==
  LET absolutePublicDir == pathResolve(Cwd, cfg.publicDir)
      absoluteFilePath  == pathResolve(Cwd, filePath)
  IN  normalizeSeparators(pathRelative(absolutePublicDir, absoluteFilePath))

\* camelCase that treats the first part like the others
applyNamingStrategyFirstCapital(processedName, namingStrategy) ==
  LET parts == split(processedName, "_") IN
  CASE namingStrategy \in {"camelCase", "PascalCase"} ->
         join([i \in 1..Len(parts) |-> capitalize(parts[i])], <<>>)
    [] namingStrategy = "snake_case" -> toLowerCase(processedName)
    [] OTHER -> processedName

applyNamingStrategy(processedName, namingStrategy) ==
  LET parts == split(processedName, "_") IN
  CASE namingStrategy = "camelCase" ->
         join([i \in 1..Len(parts) |->
                 IF i = 1 THEN toLowerCase(parts[i]) ELSE capitalize(parts[i])], <<>>)
    [] namingStrategy = "PascalCase" ->
         join([i \in 1..Len(parts) |-> capitalize(parts[i])], <<>>)
    [] namingStrategy = "snake_case" -> toLowerCase(processedName)
    [] OTHER -> processedName

\* the prefix added before the case conversion
addPrefixThenConvert(variableName, variablePrefix) ==
  IF variablePrefix # <<>>
    THEN applyNamingStrategy(variablePrefix \o variableName, "camelCase")
    ELSE variableName

addPrefix(variableName, variablePrefix) ==
  IF variablePrefix # <<>>
    THEN variablePrefix \o variableName
    ELSE variableName

\* the result of the user function sanitized like a static name
pathToVariableNameSanitized(filePath, cfg) ==
  LET relativePath == getRelativePath(filePath, cfg) IN
  IF isTsConfig(cfg)
    THEN replaceInvalid(callPathToVariableName(cfg.pathToVariableName, filePath,
                                               relativePath))
    ELSE addPrefix(applyNamingStrategy(
                     replaceInvalid(IF cfg.includeExtensionsInNames = TRUE
                                      THEN pathBasename(relativePath)
                                      ELSE removeExtension(pathBasename(relativePath))),
                     cfg.namingStrategy),
                   cfg.variablePrefix)

pathToVariableName(filePath, cfg) ==
  LET relativePath == getRelativePath(filePath, cfg) IN
  IF isTsConfig(cfg)
    THEN callPathToVariableName(cfg.pathToVariableName, filePath, relativePath)
    ELSE LET fileName      == pathBasename(relativePath)
             processedName == replaceInvalid(
                                IF cfg.includeExtensionsInNames = TRUE
                                  THEN fileName
                                  ELSE removeExtension(fileName))
         IN  addPrefix(applyNamingStrategy(processedName, cfg.namingStrategy),
                       cfg.variablePrefix)

\* the default rule applied whatever the configuration carries
transformPathValueDefaultOnly(filePath, cfg) ==
  <<"/">> \o getRelativePath(filePath, cfg)

transformPathValue(filePath, cfg) ==
  LET relativePath == getRelativePath(filePath, cfg) IN
  IF isTsConfig(cfg) /\ cfg.transformPathValue # Undefined
    THEN callTransformPathValue(cfg.transformPathValue, filePath, relativePath)
    ELSE <<"/">> \o relativePath

\* where config.excludePatterns.some(...) stops: at the first entry whose
\* RegExp does not compile or matches relativePath; 0 when it runs through
somePatternStop(filePath, cfg) ==
  LET relativePath == getRelativePath(filePath, cfg)
      stops == { i \in 1..Len(cfg.excludePatterns) :
                   \/ ~isValidRegExp(replaceStar(cfg.excludePatterns[i]))
                   \/ regExpTest(compileRegExp(replaceStar(cfg.excludePatterns[i])),
                                 relativePath) }
  IN  IF stops = {} THEN 0 ELSE CHOOSE i \in stops : \A j \in stops : i <= j

\* config.excludePatterns.some(pattern => new RegExp(...).test(relativePath)),
\* when it returns
matchesExcludePattern(filePath, cfg) ==
  \E i \in {somePatternStop(filePath, cfg)} :
    i # 0 /\ isValidRegExp(replaceStar(cfg.excludePatterns[i]))

\* a filter that compiles nothing it cannot compile: a pattern that is not a
\* regular expression matches no path
shouldIncludeFileErrorLenient(filePath, cfg) == "none"

\* the exception shouldIncludeFile raises, "none" when it returns
shouldIncludeFileError(filePath, cfg) ==
  LET i == somePatternStop(filePath, cfg) IN
  IF i # 0
    THEN IF isValidRegExp(replaceStar(cfg.excludePatterns[i]))
           THEN "none" ELSE "SyntaxError"
  ELSE IF /\ isTsConfig(cfg) /\ cfg.shouldIncludeFile # Undefined
          /\ throws(cfg.shouldIncludeFile)
    THEN "Error: shouldIncludeFile"
  ELSE "none"

\* the exception pathToVariableName raises, "none" when it returns
pathToVariableNameError(filePath, cfg) ==
  IF isTsConfig(cfg) /\ throws(cfg.pathToVariableName)
    THEN "Error: pathToVariableName" ELSE "none"

\* a call of the user function wrapped in try/catch
transformPathValueErrorCaught(filePath, cfg) == "none"

\* the exception transformPathValue raises, "none" when it returns
transformPathValueError(filePath, cfg) ==
  IF isTsConfig(cfg) /\ cfg.transformPathValue # Undefined
       /\ throws(cfg.transformPathValue)
    THEN "Error: transformPathValue" ELSE "none"

\* the user predicate consulted before the exclude patterns
shouldIncludeFileCallbackFirst(filePath, cfg) ==
  IF isTsConfig(cfg) /\ cfg.shouldIncludeFile # Undefined
    THEN callShouldIncludeFile(cfg.shouldIncludeFile, filePath,
                               getRelativePath(filePath, cfg))
    ELSE ~matchesExcludePattern(filePath, cfg)

\* the user predicate consulted whatever the mode of the configuration
shouldIncludeFileAnyMode(filePath, cfg) ==
  IF matchesExcludePattern(filePath, cfg) THEN FALSE
  ELSE IF cfg.shouldIncludeFile # Undefined
    THEN callShouldIncludeFile(cfg.shouldIncludeFile, filePath,
                               getRelativePath(filePath, cfg))
    ELSE TRUE

shouldIncludeFile(filePath, cfg) ==
  LET relativePath == getRelativePath(filePath, cfg) IN
  IF matchesExcludePattern(filePath, cfg) THEN FALSE
  ELSE IF isTsConfig(cfg) /\ cfg.shouldIncludeFile # Undefined
    THEN callShouldIncludeFile(cfg.shouldIncludeFile, filePath, relativePath)
    ELSE TRUE

(* The invocations of the user callbacks each of the functions above makes *)

CallRecord(fn, filePath, relativePath, ret) ==
  [fn |-> fn, filePath |-> filePath, relativePath |-> relativePath, ret |-> ret,
   threw |-> FALSE]

\* an invocation that threw instead of returning
ThrowRecord(fn, filePath, relativePath) ==
  [fn |-> fn, filePath |-> filePath, relativePath |-> relativePath, ret |-> <<>>,
   threw |-> TRUE]

pathToVariableNameCalls(filePath, cfg) ==
  IF isTsConfig(cfg) /\ throws(cfg.pathToVariableName)
    THEN << ThrowRecord("pathToVariableName", filePath,
                        getRelativePath(filePath, cfg)) >>
  ELSE IF isTsConfig(cfg)
    THEN << CallRecord("pathToVariableName", filePath, getRelativePath(filePath, cfg),
                       callPathToVariableName(cfg.pathToVariableName, filePath,
                                              getRelativePath(filePath, cfg))) >>
    ELSE <<>>

transformPathValueCalls(filePath, cfg) ==
  IF isTsConfig(cfg) /\ cfg.transformPathValue # Undefined
       /\ throws(cfg.transformPathValue)
    THEN << ThrowRecord("transformPathValue", filePath,
                        getRelativePath(filePath, cfg)) >>
  ELSE IF isTsConfig(cfg) /\ cfg.transformPathValue # Undefined
    THEN << CallRecord("transformPathValue", filePath, getRelativePath(filePath, cfg),
                       callTransformPathValue(cfg.transformPathValue, filePath,
                                              getRelativePath(filePath, cfg))) >>
    ELSE <<>>

shouldIncludeFileCalls(filePath, cfg) ==
  IF /\ somePatternStop(filePath, cfg) = 0
     /\ isTsConfig(cfg) /\ cfg.shouldIncludeFile # Undefined
     /\ throws(cfg.shouldIncludeFile)
    THEN << ThrowRecord("shouldIncludeFile", filePath,
                        getRelativePath(filePath, cfg)) >>
  ELSE IF /\ somePatternStop(filePath, cfg) = 0
          /\ isTsConfig(cfg) /\ cfg.shouldIncludeFile # Undefined
    THEN << CallRecord("shouldIncludeFile", filePath, getRelativePath(filePath, cfg),
                       callShouldIncludeFile(cfg.shouldIncludeFile, filePath,
                                             getRelativePath(filePath, cfg))) >>
    ELSE <<>>

-----------------------------------------------------------------------------
(* The AssetGroup object graph: `result` and the groups nested in it.       *)
(* It is kept as the list of the own properties of all its groups; `path`  *)
(* is the chain of keys that leads from `result` to the property, and the  *)
(* order of two properties of one group in the list is their order in      *)
(* Object.entries of that group.                                           *)

Leaf(path, value) == [path |-> path, leaf |-> TRUE, value |-> value]

Group(path) == [path |-> path, leaf |-> FALSE, value |-> <<>>]

keyOf(e) == e.path[Len(e.path)]

parentOf(e) == SubSeq(e.path, 1, Len(e.path) - 1)

isStrictPrefix(p, q) == Len(p) < Len(q) /\ SubSeq(q, 1, Len(p)) = p

hasOwnProperty(tree, path) == \E i \in 1..Len(tree) : tree[i].path = path

ownProperty(tree, path) == tree[CHOOSE i \in 1..Len(tree) : tree[i].path = path]

RECURSIVE toNumber(_)
toNumber(digits) ==
  IF Len(digits) = 0 THEN 0
  ELSE 10 * toNumber(SubSeq(digits, 1, Len(digits) - 1))
         + (IndexOf(DigitChars, digits[Len(digits)]) - 1)

\* a canonical array index: these keys are enumerated first, in numeric order
\* (indices of ten digits are not distinguished from other keys)
isArrayIndex(key) ==
  /\ Len(key) > 0 /\ Len(key) <= 9
  /\ \A i \in 1..Len(key) : key[i] \in Range(DigitChars)
  /\ Len(key) = 1 \/ key[1] # "0"

\* group[key] = node that leaves in the tree what the old value referenced
setPropertyKeepSubtree(tree, groupPath, key, node) ==
  LET path == Append(groupPath, key) IN
  IF hasOwnProperty(tree, path)
    THEN [i \in 1..Len(tree) |-> IF tree[i].path = path THEN node ELSE tree[i]]
    ELSE Append(tree, node)

\* an assignment that leaves an existing key alone: the first write wins
setPropertyKeepFirst(tree, groupPath, key, node) ==
  IF hasOwnProperty(tree, Append(groupPath, key)) THEN tree ELSE Append(tree, node)

\* group[key] = node on an object: an existing key keeps its place and what
\* its old value referenced becomes unreachable; a new key goes after the
\* keys of its kind (array indices in numeric order, then the others in
\* insertion order)
setProperty(tree, groupPath, key, node) ==
  LET path == Append(groupPath, key) IN
  IF hasOwnProperty(tree, path)
    THEN SelectSeq([i \in 1..Len(tree) |-> IF tree[i].path = path THEN node ELSE tree[i]],
                   LAMBDA e : ~isStrictPrefix(path, e.path))
    ELSE LET later == { i \in 1..Len(tree) :
                          /\ parentOf(tree[i]) = groupPath
                          /\ isArrayIndex(key)
                          /\ \/ ~isArrayIndex(keyOf(tree[i]))
                             \/ toNumber(key) < toNumber(keyOf(tree[i])) }
         IN  IF later = {} THEN Append(tree, node)
             ELSE LET i == CHOOSE j \in later : \A k \in later : j <= k
                  IN  SubSeq(tree, 1, i - 1) \o <<node>> \o SubSeq(tree, i, Len(tree))

\* Object.entries(group)
objectEntries(tree, groupPath) ==
  SelectSeq(tree, LAMBDA e : parentOf(e) = groupPath)

(* JavaScript values held by `current` in groupAssetsByDirectory *)

JsUndefined == [type |-> "undefined", path |-> <<>>, str |-> <<>>]

JsString(s) == [type |-> "string", path |-> <<>>, str |-> s]

JsObject(path) == [type |-> "object", path |-> path, str |-> <<>>]

\* current[key]: an own property of a group, or a character of a string
\* (`current` is a string after the cast of a leaf `as AssetGroup`)
getProperty(tree, current, key) ==
  IF current.type = "object"
    THEN IF hasOwnProperty(tree, Append(current.path, key))
           THEN LET e == ownProperty(tree, Append(current.path, key))
                IN  IF e.leaf THEN JsString(e.value) ELSE JsObject(e.path)
           ELSE JsUndefined
    ELSE IF isArrayIndex(key) /\ toNumber(key) < Len(current.str)
           THEN JsString(<<current.str[toNumber(key) + 1]>>)
           ELSE JsUndefined

\* !v is false
truthy(v) == v.type = "object" \/ (v.type = "string" /\ v.str # <<>>)

\* a walk that never descends: every leaf lands in `result` itself
walkPartsNoDescent(st, parts, cfg) == st

RECURSIVE walkParts(_, _, _)
\* for (const part of parts) { ... }: st.threw says that an exception ended
\* the loop, st.error which: the one of the user function, or the TypeError
\* that an assignment to a property of a string primitive raises in module code
walkParts(st, parts, cfg) ==
  IF Len(parts) = 0 \/ st.threw THEN st
  ELSE LET part == Head(parts) IN
       IF part = <<>> THEN walkParts(st, Tail(parts), cfg)
       ELSE LET dirVarName == pathToVariableName(part, cfg)
                called     == st.calls \o pathToVariableNameCalls(part, cfg)
                existing   == getProperty(st.tree, st.current, dirVarName)
            IN  IF pathToVariableNameError(part, cfg) # "none"
                  THEN [st EXCEPT !.calls = called, !.threw = TRUE,
                                  !.error = pathToVariableNameError(part, cfg)]
                ELSE IF truthy(existing)
                  THEN walkParts([st EXCEPT !.calls = called, !.current = existing],
                                 Tail(parts), cfg)
                ELSE IF st.current.type # "object"
                  THEN [st EXCEPT !.calls = called, !.threw = TRUE,
                                  !.error = "TypeError"]
                ELSE LET path == Append(st.current.path, dirVarName)
                     IN  walkParts([ tree    |-> setProperty(st.tree, st.current.path,
                                                             dirVarName, Group(path)),
                                     current |-> JsObject(path),
                                     calls   |-> called,
                                     threw   |-> FALSE,
                                     error   |-> "none" ],
                                   Tail(parts), cfg)

\* the rest of the body once the directory parts are walked: the leaf
insertLeaf(walked, skipped, file, cfg) ==
  LET varName == pathToVariableName(file, cfg)
      value   == transformPathValue(file, cfg)
      called  == walked.calls \o pathToVariableNameCalls(file, cfg)
                   \o transformPathValueCalls(file, cfg)
                   \o transformPathValueCalls(file, cfg)
  IN
  IF walked.threw
    THEN [ skipped EXCEPT !.tree = walked.tree, !.calls = walked.calls,
                          !.threw = TRUE, !.error = walked.error,
                          !.included = TRUE ]
  ELSE IF pathToVariableNameError(file, cfg) # "none"
    THEN [ skipped EXCEPT !.tree = walked.tree,
                          !.calls = walked.calls \o pathToVariableNameCalls(file, cfg),
                          !.threw = TRUE,
                          !.error = pathToVariableNameError(file, cfg),
                          !.included = TRUE ]
  ELSE IF transformPathValueError(file, cfg) # "none"
    THEN [ skipped EXCEPT !.tree = walked.tree,
                          !.calls = walked.calls \o pathToVariableNameCalls(file, cfg)
                                      \o transformPathValueCalls(file, cfg),
                          !.threw = TRUE,
                          !.error = transformPathValueError(file, cfg),
                          !.included = TRUE, !.varName = varName ]
  ELSE IF walked.current.type # "object"
    THEN [ skipped EXCEPT !.tree = walked.tree, !.calls = called,
                          !.threw = TRUE, !.error = "TypeError",
                          !.included = TRUE,
                          !.varName = varName, !.value = value ]
  ELSE [ skipped EXCEPT
           !.tree = setProperty(walked.tree, walked.current.path, varName,
                                Leaf(Append(walked.current.path, varName), value)),
           !.calls = called, !.included = TRUE,
           !.varName = varName, !.value = value,
           !.groupPath = walked.current.path ]

\* the body of files.forEach(file => { ... }) in groupAssetsByDirectory
forEachBody(tree, file, cfg) ==
  LET relativePath == getRelativePath(file, cfg)
      skipped      == [ tree |-> tree, calls |-> shouldIncludeFileCalls(file, cfg),
                        threw |-> FALSE, error |-> "none", included |-> FALSE,
                        relativePath |-> relativePath,
                        varName |-> <<>>, value |-> <<>>, groupPath |-> <<>> ]
      parts        == split(relativePath, "/")
      dirParts     == IF cfg.groupByDirectory
                        THEN SubSeq(parts, 1, Len(parts) - 1) ELSE <<>>
  IN
  IF shouldIncludeFileError(file, cfg) # "none"
    THEN [ skipped EXCEPT !.threw = TRUE,
                          !.error = shouldIncludeFileError(file, cfg) ]
  ELSE IF ~shouldIncludeFile(file, cfg) THEN skipped
  ELSE CHOOSE it \in
         { insertLeaf(walked, skipped, file, cfg) :
             walked \in { walkParts([ tree |-> tree, current |-> JsObject(<<>>),
                                      calls |-> skipped.calls, threw |-> FALSE,
                                      error |-> "none" ],
                                    dirParts, cfg) } } : TRUE

RECURSIVE generateCodeUnindented(_, _, _)
\* an emitter that gives the children of a namespace the indentation of the
\* namespace
generateCodeUnindented(tree, groupPath, indentation) ==
  LET indent  == [i \in 1..indentation |-> " "]
      entries == objectEntries(tree, groupPath)
      code[n \in 0..Len(entries)] ==
        IF n = 0 THEN <<>>
        ELSE LET key == keyOf(entries[n]) IN
             IF entries[n].leaf
               THEN code[n - 1] \o indent \o <<"export const ">> \o key \o <<" = '">>
                      \o entries[n].value \o <<"';", "\n">>
               ELSE code[n - 1] \o indent \o <<"export namespace ">> \o key \o <<" {", "\n">>
                      \o generateCodeUnindented(tree, entries[n].path, indentation)
                      \o indent \o <<"}", "\n">>
  IN  code[Len(entries)]

RECURSIVE generateCode(_, _, _)
\* the text is a sequence of pieces: the characters of keys and values, and
\* the literal parts of the template strings
generateCode(tree, groupPath, indentation) ==
  LET indent  == [i \in 1..indentation |-> " "]
      entries == objectEntries(tree, groupPath)
      code[n \in 0..Len(entries)] ==
        IF n = 0 THEN <<>>
        ELSE LET key == keyOf(entries[n]) IN
             IF entries[n].leaf
               THEN code[n - 1] \o indent \o <<"export const ">> \o key \o <<" = '">>
                      \o entries[n].value \o <<"';", "\n">>
               ELSE code[n - 1] \o indent \o <<"export namespace ">> \o key \o <<" {", "\n">>
                      \o generateCode(tree, entries[n].path, indentation + 2)
                      \o indent \o <<"}", "\n">>
  IN  code[Len(entries)]

Header ==
  << "/**", "\n",
     " * This file is auto-generated by public-asset-link.", "\n",
     " * Do not edit this file directly.", "\n",
     " */", "\n",
     "\n" >>

-----------------------------------------------------------------------------
(* src/src/config.ts and the files of a project *)

NodeModulesPattern ==
  <<"*","*","/","n","o","d","e","_","m","o","d","u","l","e","s","/","*","*">>

DEFAULT_JSON_CONFIG ==
  [ publicDir                |-> PublicDir,
    outputFile               |-> OutputFile,
    excludePatterns          |-> <<DotfilePattern, NodeModulesPattern>>,
    namingStrategy           |-> "camelCase",
    includeExtensionsInNames |-> FALSE,
    variablePrefix           |-> <<>>,
    groupByDirectory         |-> TRUE ]

DEFAULT_TS_CONFIG ==
  [ publicDir          |-> PublicDir,
    outputFile         |-> OutputFile,
    excludePatterns    |-> <<DotfilePattern, NodeModulesPattern>>,
    groupByDirectory   |-> TRUE,
    pathToVariableName |-> "camel",
    transformPathValue |-> "slash" ]

\* the object of the template that `init --typescript` writes
TemplateTsConfig ==
  [ publicDir          |-> PublicDir,
    outputFile         |-> OutputFile,
    excludePatterns    |-> <<DotfilePattern, NodeModulesPattern>>,
    groupByDirectory   |-> TRUE,
    pathToVariableName |-> "camel",
    transformPathValue |-> "assets",
    shouldIncludeFile  |-> "notMap" ]

\* the object {}
EmptyObject == [f \in {} |-> Undefined]

\* { ...a, ...b }
spread(a, b) ==
  [f \in DOMAIN a \cup DOMAIN b |-> IF f \in DOMAIN b THEN b[f] ELSE a[f]]

ConfigFields ==
  { "publicDir", "outputFile", "excludePatterns", "groupByDirectory",
    "namingStrategy", "includeExtensionsInNames", "variablePrefix",
    "pathToVariableName", "transformPathValue", "shouldIncludeFile" }

\* config.<field> of a field the object lacks is undefined, which is falsy
absentField(f) ==
  CASE f = "includeExtensionsInNames" -> FALSE
    [] f = "variablePrefix"           -> <<>>
    [] OTHER                          -> Undefined

\* the object as the generator reads it, field by field
readFields(obj) ==
  [f \in ConfigFields |-> IF f \in DOMAIN obj THEN obj[f] ELSE absentField(f)]

\* path.resolve(from, to) as a string
resolvePath(from, to) == <<"/">> \o join(pathResolve(from, to), <<"/">>)

\* the default of the --config option
ConfigJsonPath ==
  <<".","/","a","s","s","e","t","-","l","i","n","k",".","c","o","n","f","i","g",
    ".","j","s","o","n">>

ConfigTsPath ==
  <<".","/","a","s","s","e","t","-","l","i","n","k",".","c","o","n","f","i","g",
    ".","t","s">>

\* a configuration file: `loads` says that JSON.parse of its text, or require
\* of the module, returns; `object` is what it returns
ConfigFile(loads, object) == [exists |-> TRUE, loads |-> loads, object |-> object]

NoFile == [exists |-> FALSE, loads |-> FALSE, object |-> EmptyObject]

\* the file at an absolute path, for the two paths a configuration is kept at
fileAt(fs, abs) ==
  IF abs = resolvePath(Cwd, ConfigJsonPath) THEN fs.configJson
  ELSE IF abs = resolvePath(Cwd, ConfigTsPath) THEN fs.configTs
  ELSE NoFile

\* fs.existsSync(abs)
existsSync(fs, abs) == fileAt(fs, abs).exists

\* JSON.parse(fs.readFileSync(configFile, 'utf8'))
parseJsonFile(fs, abs) ==
  [threw |-> ~fileAt(fs, abs).loads, value |-> fileAt(fs, abs).object]

\* require(configFile), then importedConfig.default || importedConfig
requireModule(fs, abs) ==
  [threw |-> ~fileAt(fs, abs).loads, value |-> fileAt(fs, abs).object]

\* the value loadConfig returns
Returned(value) == [raised |-> FALSE, value |-> value]

\* an exception that leaves loadConfig
Raised == [raised |-> TRUE, value |-> EmptyObject]

\* a loader whose try blocks have no catch
loadConfigUncaught(configPath, fs) ==
  LET configFile == resolvePath(Cwd, configPath) IN
  IF ~existsSync(fs, configFile) THEN Returned(DEFAULT_JSON_CONFIG)
  ELSE IF endsWith(configFile, <<".","t","s">>) \/ endsWith(configFile, <<".","j","s">>)
    THEN LET imported == requireModule(fs, configFile) IN
         IF imported.threw THEN Raised
         ELSE IF isTsConfig(readFields(imported.value))
           THEN Returned(spread(DEFAULT_TS_CONFIG, imported.value))
           ELSE Returned(spread(DEFAULT_JSON_CONFIG, imported.value))
    ELSE LET parsed == parseJsonFile(fs, configFile) IN
         IF parsed.threw THEN Raised
         ELSE Returned(spread(DEFAULT_JSON_CONFIG, parsed.value))

loadConfig(configPath, fs) ==
  LET configFile == resolvePath(Cwd, configPath) IN
  IF ~existsSync(fs, configFile) THEN Returned(DEFAULT_JSON_CONFIG)
  ELSE IF endsWith(configFile, <<".","t","s">>) \/ endsWith(configFile, <<".","j","s">>)
    THEN LET imported == requireModule(fs, configFile) IN
         IF imported.threw THEN Returned(DEFAULT_JSON_CONFIG)
         ELSE IF isTsConfig(readFields(imported.value))
           THEN Returned(spread(DEFAULT_TS_CONFIG, imported.value))
           ELSE Returned(spread(DEFAULT_JSON_CONFIG, imported.value))
    ELSE LET parsed == parseJsonFile(fs, configFile) IN
         IF parsed.threw THEN Returned(DEFAULT_JSON_CONFIG)
         ELSE Returned(spread(DEFAULT_JSON_CONFIG, parsed.value))

\* the objects the configuration files of a project hold at the start
JsonObjects ==
  { EmptyObject,
    [excludePatterns |-> <<>>],
    [excludePatterns |-> <<UnclosedClassPattern>>] }

ModuleObjects ==
  { [excludePatterns |-> <<>>, pathToVariableName |-> "constX"],
    [excludePatterns |-> <<>>, pathToVariableName |-> "custom",
     transformPathValue |-> "throws"] }

ConfigJsonFiles ==
  {NoFile, ConfigFile(FALSE, EmptyObject)} \cup { ConfigFile(TRUE, o) : o \in JsonObjects }

ConfigTsFiles ==
  {NoFile, ConfigFile(FALSE, EmptyObject)} \cup { ConfigFile(TRUE, o) : o \in ModuleObjects }

\* the files below publicDir of a project, dotfiles included
RelDotEnv == <<".","e","n","v">>

DiskPool == { RelImagePng, RelImagesIcon, RelDotEnv }

PublicDirs ==
  {[exists |-> FALSE, files |-> {}]} \cup { [exists |-> TRUE, files |-> fs] : fs \in SUBSET DiskPool }

\* the output file: absent, or left by an earlier generation
OldContent == <<"// old", "\n">>

OutputFiles == { [exists |-> FALSE, content |-> <<>>], [exists |-> TRUE, content |-> OldContent] }

Projects ==
  [ configJson : ConfigJsonFiles, configTs : ConfigTsFiles,
    publicDir : PublicDirs, outputFile : OutputFiles ]

\* the watch command has not run: no generateAssetFiles call is in flight.
\* pending: the calls whose glob has not resolved, in the order they were
\* made, each with the number of its directory scan (0 before the scan) and
\* the publicDir it read; scans: the scans made so far; latest: what the
\* most recent scan read; running: the scan of the call whose continuation
\* runs; written: the scan of the call that last wrote the output file;
\* events: the file system events so far; rejected: whether a glob rejected
NoWatcher ==
  [ pending  |-> <<>>,
    scans    |-> 0,
    latest   |-> [exists |-> FALSE, files |-> {}],
    running  |-> 0,
    written  |-> 0,
    events   |-> 0,
    rejected |-> FALSE ]

\* no file at all: generateAssetVariables called on its own
EmptyProject ==
  [ configJson |-> NoFile, configTs |-> NoFile,
    publicDir  |-> [exists |-> FALSE, files |-> {}],
    outputFile |-> [exists |-> FALSE, content |-> <<>>] ]

(* glob(`${publicDirAbs}/**/*`, { ignore, nodir: true }) *)

\* a path segment against a pattern segment: "*" is any run of characters
globSegmentMatches(pat, seg) ==
  LET atoms == [i \in 1..Len(pat) |->
                  [any |-> pat[i] = "*", ch |-> pat[i], star |-> pat[i] = "*"]]
  IN  (Len(seg) + 1) \in positionsAfter(atoms, 1, seg, {1})

RECURSIVE globMatches(_, _)
\* the segments of a path against those of a pattern: "**" is any run of
\* segments
globMatches(pat, segs) ==
  IF Len(pat) = 0 THEN Len(segs) = 0
  ELSE IF Head(pat) = <<"*","*">>
    THEN \/ globMatches(Tail(pat), segs)
         \/ Len(segs) > 0 /\ globMatches(pat, Tail(segs))
  ELSE /\ Len(segs) > 0
       /\ globSegmentMatches(Head(pat), Head(segs))
       /\ globMatches(Tail(pat), Tail(segs))

\* `${publicDirAbs}/${pattern.replace(/^\*\*\//, '')}`
ignorePattern(publicDirAbs, pattern) ==
  publicDirAbs \o <<"/">>
    \o (IF Len(pattern) >= 3 /\ SubSeq(pattern, 1, 3) = <<"*","*","/">>
          THEN slice(pattern, 3) ELSE pattern)

\* the files `${publicDirAbs}/**/*` matches: "*" and "**" match no name that
\* starts with a dot, and a path an ignore pattern matches is left out
globbed(fs, cfg) ==
  LET publicDirAbs == resolvePath(Cwd, cfg.publicDir) IN
  IF ~fs.publicDir.exists \/ publicDirAbs # PublicDirAbs THEN {}
  ELSE { publicDirAbs \o <<"/">> \o rel : rel \in
           { r \in fs.publicDir.files :
               /\ \A seg \in Range(split(r, "/")) : charAt0(seg) # <<".">>
               /\ \A i \in 1..Len(cfg.excludePatterns) :
                    ~globMatches(split(ignorePattern(publicDirAbs,
                                                     cfg.excludePatterns[i]), "/"),
                                 split(publicDirAbs \o <<"/">> \o r, "/")) } }

\* the arrays glob can resolve with: the matched files in any order
globResults(fs, cfg) ==
  LET found == globbed(fs, cfg) IN
  { list \in [1..Cardinality(found) -> found] :
      \A i, j \in 1..Cardinality(found) : list[i] = list[j] => i = j }

-----------------------------------------------------------------------------
(* The state machine: calls of generateAssetVariables(files, config) *)

\* files in directories named like the public directory, with a dot, and
\* with digits only, two levels deep
RelPublicLogo == <<"p","u","b","l","i","c","/","l","o","g","o",".","p","n","g">>
RelDottedLogo == <<"v","1",".","2","/","l","o","g","o",".","p","n","g">>
RelDigitDir   == <<"i","m","a","g","e","s","/","7","/","b",".","p","n","g">>
RelDigitFile  == <<"i","m","a","g","e","s","/","1","0",".","p","n","g">>

DirPool == { AbsPath(rel) : rel \in { RelPublicLogo, RelDottedLogo, RelDigitDir,
                                       RelDigitFile } }

DirFileLists ==
  { fs \in UNION { [1..n -> DirPool] : n \in 0..MaxFiles } :
      \A i, j \in 1..Len(fs) : fs[i] = fs[j] => i = j }

DirConfigs ==
  { JsonConfig(<<>>, g, "camelCase", ie, vp) :
      g \in BOOLEAN, ie \in BOOLEAN, vp \in {<<>>, AssetPrefix} }
  \cup { TsConfig(<<>>, g, "custom", "assets", "all") : g \in BOOLEAN }

\* the file lists a later scan of publicDir can return: one file added, one
\* file removed, or the same files
Rescans(fs) ==
  {fs} \cup { Append(fs, f) : f \in IF Len(fs) < MaxFiles
                                        THEN FilePool \ Range(fs) ELSE {} }
       \cup { SubSeq(fs, 1, i - 1) \o SubSeq(fs, i + 1, Len(fs)) : i \in 1..Len(fs) }

Init ==
  /\ files \in FileLists
  /\ config \in Configs
  /\ idx = 1
  /\ result = <<>>
  /\ status = "running"
  /\ output = <<>>
  /\ calls = <<>>
  /\ processed = <<>>
  /\ reinvoked = FALSE
  /\ thrown = "none"
  /\ pc = "direct"
  /\ fsys = EmptyProject
  /\ logged = <<>>
  /\ optionsConfig = ConfigJsonPath
  /\ watcher = NoWatcher

\* one iteration of files.forEach in groupAssetsByDirectory
ProcessFile ==
  /\ status = "running"
  /\ idx <= Len(files)
  /\ \E it \in {forEachBody(result, files[idx], config)} :
       /\ result' = it.tree
       /\ calls' = calls \o it.calls
       /\ processed' = Append(processed,
                         [ file |-> files[idx], relativePath |-> it.relativePath,
                           included |-> it.included, threw |-> it.threw,
                           error |-> it.error,
                           varName |-> it.varName, value |-> it.value,
                           groupPath |-> it.groupPath ])
       /\ status' = IF it.threw THEN "error" ELSE "running"
       /\ thrown' = it.error
  /\ idx' = idx + 1
  /\ UNCHANGED <<files, config, output, reinvoked, pc, fsys, logged, optionsConfig, watcher>>

\* an empty tree rendered as an empty module
EmitEmptyModule ==
  /\ status = "running"
  /\ idx > Len(files)
  /\ output' = IF result = <<>> THEN Header \o <<"export {};", "\n">>
                                ELSE Header \o generateCode(result, <<>>, 0)
  /\ status' = "done"
  /\ UNCHANGED <<files, config, idx, result, calls, processed, reinvoked,
                 thrown, pc, fsys, logged, optionsConfig, watcher>>

\* generateAssetVariables after groupAssetsByDirectory returned: the header
\* and generateCode(assetGroups)
Emit ==
  /\ status = "running"
  /\ idx > Len(files)
  /\ output' = Header \o generateCode(result, <<>>, 0)
  /\ status' = "done"
  /\ UNCHANGED <<files, config, idx, result, calls, processed, reinvoked,
                 thrown, pc, fsys, logged, optionsConfig, watcher>>

\* a tree shared between calls
sharedResult(previous) == previous

\* `const result: AssetGroup = {}` of a new call
newResult(previous) == <<>>

\* the next call of generateAssetVariables, after the previous one returned
\* or threw
Invoke ==
  /\ pc = "direct"
  /\ status \in {"done", "error"}
  /\ files' \in Rescans(files)
  /\ config' \in {config, [config EXCEPT !.groupByDirectory = ~@]}
  /\ idx' = 1
  /\ result' = newResult(result)
  /\ status' = "running"
  /\ output' = <<>>
  /\ calls' = <<>>
  /\ processed' = <<>>
  /\ reinvoked' = TRUE
  /\ thrown' = "none"
  /\ UNCHANGED <<pc, fsys, logged, optionsConfig, watcher>>

Next == ProcessFile \/ Emit \/ Invoke

Spec == Init /\ [][Next]_vars

\* one call of generateAssetVariables on files of nested directories
DirInit ==
  /\ files \in DirFileLists
  /\ config \in DirConfigs
  /\ idx = 1
  /\ result = <<>>
  /\ status = "running"
  /\ output = <<>>
  /\ calls = <<>>
  /\ processed = <<>>
  /\ reinvoked = FALSE
  /\ thrown = "none"
  /\ pc = "direct"
  /\ fsys = EmptyProject
  /\ logged = <<>>
  /\ optionsConfig = ConfigJsonPath
  /\ watcher = NoWatcher

DirNext == ProcessFile \/ Emit

DirSpec == DirInit /\ [][DirNext]_vars

-----------------------------------------------------------------------------
(* The command line program of src/src/index.ts: `init` and `generate`.     *)
(* pc is "idle" between commands, "glob" while generateAssetFiles awaits    *)
(* glob, "generate" from there to the end of its try block, and "crashed"   *)
(* after an exception nothing caught.                                       *)

CliInit ==
  /\ fsys \in Projects
  /\ pc = "idle"
  /\ logged = <<>>
  /\ optionsConfig = ConfigJsonPath
  /\ watcher = NoWatcher
  /\ files = <<>>
  /\ config = readFields(DEFAULT_JSON_CONFIG)
  /\ idx = 1
  /\ result = <<>>
  /\ status = "idle"
  /\ output = <<>>
  /\ calls = <<>>
  /\ processed = <<>>
  /\ reinvoked = FALSE
  /\ thrown = "none"

\* an init that writes whether or not the file exists
InitCommandOverwriting ==
  /\ pc = "idle"
  /\ \E typescript \in BOOLEAN, evaluates \in BOOLEAN :
       /\ fsys' = IF typescript
                    THEN [fsys EXCEPT !.configTs = ConfigFile(evaluates, TemplateTsConfig)]
                    ELSE [fsys EXCEPT !.configJson = ConfigFile(TRUE, DEFAULT_JSON_CONFIG)]
       /\ logged' = <<"Configuration file created">>
  /\ UNCHANGED <<files, config, idx, result, status, output, calls, processed,
                 reinvoked, thrown, pc, optionsConfig, watcher>>

\* the action of the init command; whether the written template evaluates
\* depends on the TypeScript loader of the project
InitCommand ==
  /\ pc = "idle"
  /\ \E typescript \in BOOLEAN, evaluates \in BOOLEAN :
       LET configFile == Cwd \o <<"/">> \o slice(IF typescript THEN ConfigTsPath
                                                               ELSE ConfigJsonPath, 2)
       IN  IF existsSync(fsys, configFile)
             THEN /\ logged' = <<"Configuration file already exists">>
                  /\ UNCHANGED fsys
             ELSE /\ fsys' = IF typescript
                               THEN [fsys EXCEPT !.configTs =
                                       ConfigFile(evaluates, TemplateTsConfig)]
                               ELSE [fsys EXCEPT !.configJson =
                                       ConfigFile(TRUE, DEFAULT_JSON_CONFIG)]
                  /\ logged' = <<"Configuration file created">>
  /\ UNCHANGED <<files, config, idx, result, status, output, calls, processed,
                 reinvoked, thrown, pc, optionsConfig, watcher>>

\* the action of the generate command up to the await of glob: loadConfig,
\* then generateAssetFiles
GenerateCommand ==
  /\ pc = "idle"
  /\ \E option \in {ConfigJsonPath, ConfigTsPath} :
       \E loaded \in {loadConfig(option, fsys)} :
         /\ optionsConfig' = option
         /\ IF loaded.raised
              THEN /\ pc' = "crashed"
                   /\ logged' = <<>>
                   /\ UNCHANGED config
              ELSE /\ pc' = "glob"
                   /\ config' = readFields(loaded.value)
                   /\ logged' = <<"Scanning for assets">>
  /\ files' = <<>>
  /\ idx' = 1
  /\ result' = <<>>
  /\ status' = "idle"
  /\ output' = <<>>
  /\ calls' = <<>>
  /\ processed' = <<>>
  /\ thrown' = "none"
  /\ UNCHANGED <<reinvoked, fsys, watcher>>

\* glob resolves: generateAssetVariables(files, config) is entered
GlobResolve ==
  /\ pc = "glob"
  /\ files' \in globResults(fsys, config)
  /\ pc' = "generate"
  /\ status' = "running"
  /\ logged' = Append(logged, "Found files to process")
  /\ UNCHANGED <<config, idx, result, output, calls, processed, reinvoked, thrown,
                 fsys, optionsConfig, watcher>>

\* glob rejects: the catch block of generateAssetFiles, then the last line of
\* the generate command
GlobReject ==
  /\ pc = "glob"
  /\ thrown' = "Error: glob"
  /\ pc' = "idle"
  /\ logged' = logged \o <<"Error generating asset files",
                           "Asset variables generated successfully!">>
  /\ UNCHANGED <<files, config, idx, result, status, output, calls, processed,
                 reinvoked, fsys, optionsConfig, watcher>>

\* a catch block that saves what was generated before the exception
CatchErrorWritingPartial ==
  /\ pc = "generate"
  /\ status = "error"
  /\ fsys' = [fsys EXCEPT !.outputFile =
                [exists |-> TRUE, content |-> Header \o generateCode(result, <<>>, 0)]]
  /\ pc' = "idle"
  /\ logged' = logged \o <<"Error generating asset files",
                           "Asset variables generated successfully!">>
  /\ UNCHANGED <<files, config, idx, result, status, output, calls, processed,
                 reinvoked, thrown, optionsConfig, watcher>>

\* generateAssetVariables threw: the catch block of generateAssetFiles
CatchError ==
  /\ pc = "generate"
  /\ status = "error"
  /\ pc' = "idle"
  /\ logged' = logged \o <<"Error generating asset files",
                           "Asset variables generated successfully!">>
  /\ UNCHANGED <<files, config, idx, result, status, output, calls, processed,
                 reinvoked, thrown, fsys, optionsConfig, watcher>>

\* generateAssetVariables returned: the output directory is made if it is
\* missing and fs.writeFileSync(outputFileAbs, generatedCode) stores the text
WriteOutput ==
  /\ pc = "generate"
  /\ status = "done"
  /\ fsys' = [fsys EXCEPT !.outputFile = [exists |-> TRUE, content |-> output]]
  /\ pc' = "idle"
  /\ logged' = logged \o <<"Generated asset paths file",
                           "Asset variables generated successfully!">>
  /\ UNCHANGED <<files, config, idx, result, status, output, calls, processed,
                 reinvoked, thrown, optionsConfig, watcher>>

CliNext ==
  \/ InitCommand
  \/ GenerateCommand
  \/ GlobResolve
  \/ GlobReject
  \/ ProcessFile
  \/ Emit
  \/ CatchError
  \/ WriteOutput

CliSpec == CliInit /\ [][CliNext]_vars

-----------------------------------------------------------------------------
(* index.ts: the watch command *)

\* the projects the watch command is started on
WatchProjects ==
  [ configJson : ConfigJsonFiles, configTs : {NoFile},
    publicDir : PublicDirs, outputFile : OutputFiles ]

WatchInit ==
  /\ fsys \in WatchProjects
  /\ pc = "idle"
  /\ logged = <<>>
  /\ optionsConfig = ConfigJsonPath
  /\ watcher = NoWatcher
  /\ files = <<>>
  /\ config = readFields(DEFAULT_JSON_CONFIG)
  /\ idx = 1
  /\ result = <<>>
  /\ status = "idle"
  /\ output = <<>>
  /\ calls = <<>>
  /\ processed = <<>>
  /\ reinvoked = FALSE
  /\ thrown = "none"

\* generateAssetFiles(config) called: glob is started and the caller goes on
NewRun == [scan |-> 0, dir |-> [exists |-> FALSE, files |-> {}]]

\* `asset-link watch`: the configuration is loaded, the initial generation
\* is started without being awaited and the watcher is installed
WatchCommand ==
  /\ pc = "idle"
  /\ \E loaded \in {loadConfig(optionsConfig, fsys)} :
       IF loaded.raised
         THEN /\ pc' = "crashed"
              /\ UNCHANGED <<config, logged, watcher>>
         ELSE /\ pc' = "watching"
              /\ config' = readFields(loaded.value)
              /\ logged' = <<"Watching for changes", "Scanning for assets",
                             "Watching for file changes...">>
              /\ watcher' = [watcher EXCEPT !.pending = <<NewRun>>]
  /\ UNCHANGED <<files, idx, result, status, output, calls, processed, reinvoked,
                 thrown, fsys, optionsConfig>>

\* /(^|[\/\\])\../: the paths chokidar does not report
ignoredByWatcher(rel) ==
  \E seg \in Range(split(rel, "/")) : charAt0(seg) = <<".">>

\* a file below publicDir is added, removed or changed; unless the watcher
\* ignores it, the 'add', 'unlink' or 'change' handler calls
\* generateAssetFiles(config), whatever calls are still in flight
FsEvent ==
  /\ pc = "watching"
  /\ watcher.events < MaxEvents
  /\ fsys.publicDir.exists
  /\ \E f \in DiskPool, kind \in {"add", "unlink", "change"} :
       /\ kind = "add" <=> f \notin fsys.publicDir.files
       /\ fsys' = [fsys EXCEPT !.publicDir.files =
                     CASE kind = "add"    -> @ \cup {f}
                       [] kind = "unlink" -> @ \ {f}
                       [] OTHER           -> @]
       /\ watcher' = [watcher EXCEPT
                        !.events  = @ + 1,
                        !.pending = IF ignoredByWatcher(f) THEN @
                                    ELSE Append(@, NewRun)]
       /\ logged' = IF ignoredByWatcher(f) THEN logged
                    ELSE Append(logged, "Scanning for assets")
  /\ UNCHANGED <<files, config, idx, result, status, output, calls, processed,
                 reinvoked, thrown, pc, optionsConfig>>

\* the glob of a call in flight reads publicDir
GlobScan(i) ==
  /\ pc = "watching"
  /\ i \in 1..Len(watcher.pending)
  /\ watcher.pending[i].scan = 0
  /\ watcher' = [watcher EXCEPT
                   !.scans      = @ + 1,
                   !.latest     = fsys.publicDir,
                   !.pending[i] = [scan |-> watcher.scans + 1, dir |-> fsys.publicDir]]
  /\ UNCHANGED <<files, config, idx, result, status, output, calls, processed,
                 reinvoked, thrown, pc, fsys, logged, optionsConfig>>

\* the call i leaves the calls in flight
withoutRun(w, i) ==
  [w EXCEPT !.pending = SubSeq(@, 1, i - 1) \o SubSeq(@, i + 1, Len(@))]

\* the glob of a call in flight resolves with what it read: the rest of
\* generateAssetFiles runs, starting with generateAssetVariables(files, config)
WatchGlobResolve(i) ==
  /\ pc = "watching"
  /\ i \in 1..Len(watcher.pending)
  /\ watcher.pending[i].scan > 0
  /\ files' \in globResults([fsys EXCEPT !.publicDir = watcher.pending[i].dir], config)
  /\ watcher' = [withoutRun(watcher, i) EXCEPT !.running = watcher.pending[i].scan]
  /\ pc' = "regenerate"
  /\ idx' = 1
  /\ result' = <<>>
  /\ status' = "running"
  /\ output' = <<>>
  /\ calls' = <<>>
  /\ processed' = <<>>
  /\ thrown' = "none"
  /\ logged' = Append(logged, "Found files to process")
  /\ UNCHANGED <<config, reinvoked, fsys, optionsConfig>>

\* the glob of a call in flight rejects: the catch block of generateAssetFiles
WatchGlobReject(i) ==
  /\ pc = "watching"
  /\ i \in 1..Len(watcher.pending)
  /\ watcher' = [withoutRun(watcher, i) EXCEPT !.rejected = TRUE]
  /\ thrown' = "Error: glob"
  /\ logged' = Append(logged, "Error generating asset files")
  /\ UNCHANGED <<files, config, idx, result, status, output, calls, processed,
                 reinvoked, pc, fsys, optionsConfig>>

\* generateAssetVariables threw in a call of the watcher: the catch block
WatchCatchError ==
  /\ pc = "regenerate"
  /\ status = "error"
  /\ pc' = "watching"
  /\ logged' = Append(logged, "Error generating asset files")
  /\ UNCHANGED <<files, config, idx, result, status, output, calls, processed,
                 reinvoked, thrown, fsys, optionsConfig, watcher>>

\* generateAssetVariables returned in a call of the watcher: the text is
\* written over the output file, whichever call wrote it last
WatchWriteOutput ==
  /\ pc = "regenerate"
  /\ status = "done"
  /\ fsys' = [fsys EXCEPT !.outputFile = [exists |-> TRUE, content |-> output]]
  /\ watcher' = [watcher EXCEPT !.written = watcher.running]
  /\ pc' = "watching"
  /\ logged' = Append(logged, "Generated asset paths file")
  /\ UNCHANGED <<files, config, idx, result, status, output, calls, processed,
                 reinvoked, thrown, optionsConfig>>

WatchNext ==
  \/ WatchCommand
  \/ FsEvent
  \/ \E i \in 1..MaxEvents + 1 : GlobScan(i)
  \/ \E i \in 1..MaxEvents + 1 : WatchGlobResolve(i)
  \/ \E i \in 1..MaxEvents + 1 : WatchGlobReject(i)
  \/ ProcessFile
  \/ Emit
  \/ WatchCatchError
  \/ WatchWriteOutput

WatchSpec == WatchInit /\ [][WatchNext]_vars



-----------------------------------------------------------------------------
(* What the properties below speak about *)

\* the path of a scanned file below publicDir, as the scan produced it
RelOf(file) == SubSeq(file, Len(PublicDirAbs) + 2, Len(file))

\* the directory names d1, ..., dk of a relative path d1/.../dk/f
DirsOf(rel) == LET parts == split(rel, "/") IN SubSeq(parts, 1, Len(parts) - 1)

\* the final component f of a relative path d1/.../dk/f
LastComponent(rel) == LET parts == split(rel, "/") IN parts[Len(parts)]

\* where a processed file was inserted: the keys from `result` to its leaf
KeyPath(p) == Append(p.groupPath, p.varName)

Inserted(p) == p.included /\ ~p.threw

isPrefix(p, q) == Len(p) <= Len(q) /\ SubSeq(q, 1, Len(p)) = p

LeavesAt(path) == { n \in 1..Len(result) : result[n].path = path /\ result[n].leaf }

NodesAt(path) == { n \in 1..Len(result) : result[n].path = path }

\* the text returned is the header followed by the rendering of `result`
OutputRendersResult == output = Header \o generateCode(result, <<>>, 0)

-----------------------------------------------------------------------------
(* C1. Exclusion precedence: a file whose relative path is matched by an   *)
(* entry of excludePatterns is not included, the user shouldIncludeFile    *)
(* function is never invoked for it, even when it would return true, and   *)
(* the output holds only constants of files that no pattern matches.       *)
C1_ExclusionPrecedence ==
  /\ \A i \in 1..Len(processed) :
       matchesExcludePattern(processed[i].file, config) =>
         /\ ~processed[i].included
         /\ \A c \in 1..Len(calls) :
              calls[c].fn = "shouldIncludeFile" => calls[c].filePath # processed[i].file
  /\ \A n \in 1..Len(result) :
       result[n].leaf =>
         \E j \in 1..Len(processed) :
           /\ Inserted(processed[j])
           /\ ~matchesExcludePattern(processed[j].file, config)
           /\ KeyPath(processed[j]) = result[n].path
           /\ processed[j].value = result[n].value
  /\ status = "done" => OutputRendersResult

\* a finished run in which a file matched a pattern although the user
\* predicate returns true for every file
C1_Witness ==
  /\ status = "done"
  /\ config.shouldIncludeFile = "all"
  /\ \E i \in 1..Len(processed) :
       /\ matchesExcludePattern(processed[i].file, config)
       /\ ~processed[i].included
  /\ \E i \in 1..Len(processed) : processed[i].included

-----------------------------------------------------------------------------
(* C2. Collision overwrite. *)

\* the last processed file inserted at the key path P
LastAt(P) ==
  CHOOSE k \in 1..Len(processed) :
    /\ Inserted(processed[k]) /\ KeyPath(processed[k]) = P
    /\ \A m \in (k + 1)..Len(processed) :
         ~(Inserted(processed[m]) /\ KeyPath(processed[m]) = P)

Collide(i, j) ==
  /\ i < j
  /\ Inserted(processed[i]) /\ Inserted(processed[j])
  /\ KeyPath(processed[i]) = KeyPath(processed[j])

\* after the file k, a file replaces by its constant a Group on the way to P,
\* or walks through P as a directory
OverwrittenAfter(P, k) ==
  \E m \in (k + 1)..Len(processed) :
    /\ Inserted(processed[m])
    /\ \/ isStrictPrefix(KeyPath(processed[m]), P)
       \/ isPrefix(P, processed[m].groupPath)

\* C2 as stated: whenever two included files yield the same identifier at
\* the same tree level, the output holds exactly one constant with that
\* identifier at that level, valued by the later file of the input sequence.
C2_AsStated ==
  status = "done" =>
    \A i, j \in 1..Len(processed) :
      Collide(i, j) =>
        LET P == KeyPath(processed[i]) IN
        /\ Cardinality(NodesAt(P)) = 1
        /\ \E n \in LeavesAt(P) : result[n].value = processed[LastAt(P)].value

\* C2, amended: whenever two included files yield the same identifier at the
\* same tree level and no later file replaces a Group enclosing that level
\* by its own constant, nor walks through the identifier as a directory,
\* the output holds exactly one constant with that identifier at that
\* level, valued by the latest file of the input sequence that yields it.
C2_CollisionOverwrite ==
  status = "done" =>
    /\ OutputRendersResult
    /\ \A i, j \in 1..Len(processed) :
         Collide(i, j) =>
           LET P == KeyPath(processed[i]) IN
           ~OverwrittenAfter(P, LastAt(P)) =>
             /\ Cardinality(NodesAt(P)) = 1
             /\ \E n \in LeavesAt(P) : result[n].value = processed[LastAt(P)].value

\* a finished run in which two files with different values collided and the
\* value of the later one is the one emitted
C2_Witness ==
  /\ status = "done"
  /\ \E i, j \in 1..Len(processed) :
       /\ Collide(i, j)
       /\ processed[i].value # processed[j].value
       /\ LastAt(KeyPath(processed[i])) = j
       /\ \E n \in LeavesAt(KeyPath(processed[i])) : result[n].value = processed[j].value

-----------------------------------------------------------------------------
(* C3. Grouping. *)

\* the namespaces named after the directories d1, ..., dk of a file
NamespacesOf(file) ==
  LET dirs == DirsOf(RelOf(file))
  IN  [n \in 1..Len(dirs) |-> pathToVariableName(dirs[n], config)]

\* where the claim places the constant of a file
PlaceOf(file) == Append(NamespacesOf(file), pathToVariableName(file, config))

EmittedInPlace(p) ==
  \E n \in LeavesAt(PlaceOf(p.file)) : result[n].value = p.value

\* one of the user functions of the configuration throws, or one of its
\* exclude patterns is not a regular expression
Raising(cfg) ==
  \/ \E i \in 1..Len(cfg.excludePatterns) :
        ~isValidRegExp(replaceStar(cfg.excludePatterns[i]))
  \/ /\ isFunction(cfg.pathToVariableName)
     /\ "throws" \in {cfg.pathToVariableName, cfg.transformPathValue,
                       cfg.shouldIncludeFile}

NoneExcluded ==
  /\ ~Raising(config)
  /\ \A i \in 1..Len(files) : shouldIncludeFile(files[i], config)

FlatOutput ==
  /\ \A n \in 1..Len(result) : result[n].leaf /\ Len(result[n].path) = 1
  /\ \A n \in 1..Len(output) : output[n] # "export namespace "

\* C3 as stated: with groupByDirectory = true and no file excluded, every
\* file d1/.../dk/f is emitted as one constant inside the namespaces named
\* after d1, ..., dk; with groupByDirectory = false there is no namespace.
C3_AsStated ==
  status = "done" =>
    IF config.groupByDirectory
      THEN NoneExcluded => \A i \in 1..Len(processed) : EmittedInPlace(processed[i])
      ELSE FlatOutput

\* no two files are placed at the same constant, and no file is placed at a
\* namespace of another file
NoCollision ==
  \E place \in { [i \in 1..Len(files) |-> PlaceOf(files[i])] } :
    \A i, j \in 1..Len(files) : i # j => ~isPrefix(place[i], place[j])

\* C3, amended: with groupByDirectory = true, no file excluded (the filter
\* returns true for every file and no pattern or user function raises) and no
\* two files colliding (no file's identifier at its level is the identifier of
\* another file or of a directory of another file at that level), generation
\* completes and every file d1/.../dk/f is emitted as one constant inside
\* the namespaces named after d1, ..., dk in that order; with
\* groupByDirectory = false the output has no namespace declaration and
\* every constant is at the top level.
C3_Grouping ==
  /\ (status \in {"done", "error"} /\ config.groupByDirectory
        /\ NoneExcluded /\ NoCollision) =>
       /\ status = "done"
       /\ OutputRendersResult
       /\ \A i \in 1..Len(processed) :
            /\ EmittedInPlace(processed[i])
            /\ Cardinality(NodesAt(PlaceOf(processed[i].file))) = 1
  /\ (status = "done" /\ ~config.groupByDirectory) => FlatOutput

\* a finished grouped run over a top-level file and files of two directories
C3_Witness ==
  /\ status = "done"
  /\ config.groupByDirectory /\ NoneExcluded /\ NoCollision
  /\ Len(files) = 3
  /\ \E i \in 1..Len(files) : Len(PlaceOf(files[i])) = 1
  /\ \E i, j \in 1..Len(files) :
       /\ Len(PlaceOf(files[i])) = 2 /\ Len(PlaceOf(files[j])) = 2
       /\ PlaceOf(files[i])[1] # PlaceOf(files[j])[1]
  /\ \A i \in 1..Len(processed) : EmittedInPlace(processed[i])

-----------------------------------------------------------------------------
(* C4. The dotfile pattern. *)

NoDotSegment(rel) ==
  LET parts == split(rel, "/")
  IN  \A n \in 1..Len(parts) : Len(parts[n]) = 0 \/ parts[n][1] # "."

\* C4: with excludePatterns = ['**/.*'], a file whose relative path has no
\* segment starting with '.' is not excluded, a file inside a subdirectory
\* included: images/icon.png is emitted inside the namespace images.
C4_DotfilePatternKeepsPlainFiles ==
  config.excludePatterns = <<DotfilePattern>> =>
    \A i \in 1..Len(processed) :
      NoDotSegment(RelOf(processed[i].file)) => processed[i].included

-----------------------------------------------------------------------------
(* C5. Determinism and statelessness. *)

RECURSIVE GroupedAlone(_, _, _)
\* groupAssetsByDirectory(fs, cfg) of a call that nothing preceded, from the
\* tree `tree`
GroupedAlone(tree, fs, cfg) ==
  IF Len(fs) = 0 THEN [tree |-> tree, threw |-> FALSE]
  ELSE CHOOSE r \in
         { IF it.threw THEN [tree |-> it.tree, threw |-> TRUE]
                       ELSE GroupedAlone(it.tree, Tail(fs), cfg) :
             it \in { forEachBody(tree, Head(fs), cfg) } } : TRUE

\* C5: generateAssetVariables(files, config) returns the same text for the
\* same file sequence and the same configuration whatever calls with other
\* inputs happened before it: the text (or the failure) of a call is the one
\* of a call of a fresh process with the same arguments.
C5_Determinism ==
  status \in {"done", "error"} =>
    \E alone \in { GroupedAlone(<<>>, files, config) } :
      /\ alone.threw <=> status = "error"
      /\ status = "done" => output = Header \o generateCode(alone.tree, <<>>, 0)

\* a call, made after another call, that returned a text with declarations
C5_Witness ==
  /\ status = "done"
  /\ reinvoked
  /\ Len(output) > Len(Header)

-----------------------------------------------------------------------------
(* C6. Static-mode naming of a file. *)

isLetterOrDigit(c) ==
  \/ \E l \in 1..Len(LowerLetters) : c = LowerLetters[l] \/ c = UpperLetters[l]
  \/ \E d \in 1..Len(DigitChars) : c = DigitChars[d]

\* the name without its last '.ext' suffix
WithoutLastExt(name) ==
  IF \E d \in 1..(Len(name) - 1) : name[d] = "."
    THEN LET d == CHOOSE e \in 1..(Len(name) - 1) :
                    name[e] = "." /\ \A f \in (e + 1)..Len(name) : name[f] # "."
         IN  SubSeq(name, 1, d - 1)
    ELSE name

RECURSIVE Recased(_, _, _, _)
\* one pass over the characters: a character outside [A-Za-z0-9] ends a part
\* (kept as '_' by snake_case only); the first character of a part is upper
\* case (of every part but the first for camelCase), the others lower case
Recased(chars, strategy, partNo, atStart) ==
  IF Len(chars) = 0 THEN <<>>
  ELSE LET c == Head(chars) IN
       IF ~isLetterOrDigit(c)
         THEN (IF strategy = "snake_case" THEN <<"_">> ELSE <<>>)
                \o Recased(Tail(chars), strategy, partNo + 1, TRUE)
         ELSE LET upper == /\ atStart
                           /\ \/ strategy = "PascalCase"
                              \/ strategy = "camelCase" /\ partNo > 1
              IN  <<IF upper THEN toUpperCaseChar(c) ELSE toLowerCaseChar(c)>>
                    \o Recased(Tail(chars), strategy, partNo, FALSE)

NamedAsClaimed(rel, cfg) ==
  Recased(IF cfg.includeExtensionsInNames THEN LastComponent(rel)
                                          ELSE WithoutLastExt(LastComponent(rel)),
          cfg.namingStrategy, 1, TRUE)

StaticNoPrefix(ns, ie) ==
  /\ ~isTsConfig(config)
  /\ config.namingStrategy = ns
  /\ config.includeExtensionsInNames = ie
  /\ config.variablePrefix = <<>>

\* C6: in static mode (no prefix) the identifier of a file is its final path
\* component, without the last '.ext' suffix unless includeExtensionsInNames,
\* with every character outside [A-Za-z0-9_] replaced by '_', split on '_'
\* and re-joined as camelCase, PascalCase or snake_case: 'my-icon.svg' gives
\* myIcon / MyIcon / my_icon, and 'image.png' with extensions gives imagePng.
C6_StaticNaming ==
  \A i \in 1..Len(processed) :
    LET p == processed[i] IN
    (Inserted(p) /\ ~isTsConfig(config) /\ config.variablePrefix = <<>>) =>
      /\ p.varName = NamedAsClaimed(RelOf(p.file), config)
      /\ i = Len(processed) => \E n \in LeavesAt(KeyPath(p)) : keyOf(result[n]) = p.varName
      /\ (RelOf(p.file) = RelMyIconSvg /\ StaticNoPrefix("camelCase", FALSE))
           => p.varName = <<"m","y","I","c","o","n">>
      /\ (RelOf(p.file) = RelMyIconSvg /\ StaticNoPrefix("PascalCase", FALSE))
           => p.varName = <<"M","y","I","c","o","n">>
      /\ (RelOf(p.file) = RelMyIconSvg /\ StaticNoPrefix("snake_case", FALSE))
           => p.varName = <<"m","y","_","i","c","o","n">>
      /\ (RelOf(p.file) = RelImagePng /\ StaticNoPrefix("camelCase", TRUE))
           => p.varName = <<"i","m","a","g","e","P","n","g">>

\* 'My Icon.png' was named myIcon by the camelCase strategy and emitted
C6_Witness ==
  /\ status = "done"
  /\ StaticNoPrefix("camelCase", FALSE)
  /\ \E i \in 1..Len(processed) :
       /\ RelOf(processed[i].file) = RelMyIconPng
       /\ Inserted(processed[i])
       /\ processed[i].varName = <<"m","y","I","c","o","n">>
       /\ LeavesAt(KeyPath(processed[i])) # {}

-----------------------------------------------------------------------------
(* C7. Prefix application. *)

\* C7: in static mode with a non-empty variablePrefix every identifier is
\* exactly variablePrefix followed by the case-converted name; the prefix is
\* added after the case conversion and is itself neither case-adjusted nor
\* sanitized: 'asset_' on image.png (camelCase) gives asset_image.
C7_PrefixApplication ==
  \A i \in 1..Len(processed) :
    LET p == processed[i] IN
    (Inserted(p) /\ ~isTsConfig(config) /\ config.variablePrefix # <<>>) =>
      /\ p.varName = config.variablePrefix
                       \o pathToVariableName(p.file, [config EXCEPT !.variablePrefix = <<>>])
      /\ p.varName = config.variablePrefix \o NamedAsClaimed(RelOf(p.file), config)
      /\ (/\ RelOf(p.file) = RelImagePng
          /\ config.namingStrategy = "camelCase"
          /\ ~config.includeExtensionsInNames
          /\ config.variablePrefix = AssetPrefix)
           => p.varName = <<"a","s","s","e","t","_","i","m","a","g","e">>

\* image.png was emitted as asset_image
C7_Witness ==
  /\ status = "done"
  /\ ~isTsConfig(config)
  /\ config.variablePrefix = AssetPrefix
  /\ config.namingStrategy = "camelCase"
  /\ \E n \in 1..Len(result) :
       /\ result[n].leaf
       /\ keyOf(result[n]) = <<"a","s","s","e","t","_","i","m","a","g","e">>
       /\ result[n].value = <<"/">> \o RelImagePng

-----------------------------------------------------------------------------
(* C8. Callback-mode leaf naming. *)

\* C8: in callback mode, for every file that is inserted the user
\* pathToVariableName function is called with (the full original file path,
\* the path relative to publicDir), and the string it returns is, unchanged,
\* the identifier of the constant.
C8_CallbackLeafNaming ==
  isTsConfig(config) =>
    \A i \in 1..Len(processed) :
      LET p == processed[i] IN
      Inserted(p) =>
        /\ \E c \in 1..Len(calls) :
             /\ calls[c].fn = "pathToVariableName"
             /\ calls[c].filePath = p.file
             /\ calls[c].relativePath = RelOf(p.file)
             /\ calls[c].ret = p.varName
        /\ i = Len(processed) =>
             \E n \in LeavesAt(KeyPath(p)) : keyOf(result[n]) = p.varName

\* my-icon.svg was emitted under the name the user function returned for it,
\* a name that static naming would have rewritten
C8_Witness ==
  /\ status = "done"
  /\ config.pathToVariableName = "custom"
  /\ \E n \in 1..Len(result) :
       /\ result[n].leaf
       /\ keyOf(result[n]) = <<"c","u","s","t","o","m","_","m","y","-","i","c","o","n",".","s","v","g">>

-----------------------------------------------------------------------------
(* C9. Callback authority. *)

\* C9: with a pathToVariableName that returns 'x' for every input, for every
\* file sequence generation completes without error, every emitted constant
\* is named x, and each namespace level holds at most one constant, whose
\* value is the one of the last file written at that level.
C9_ConstantCallbackCompletes ==
  config.pathToVariableName = "constX" =>
    /\ status # "error"
    /\ status = "done" =>
         /\ \A n \in 1..Len(result) : keyOf(result[n]) = <<"x">>
         /\ \A n, m \in 1..Len(result) :
              (result[n].leaf /\ result[m].leaf /\ parentOf(result[n]) = parentOf(result[m]))
                => n = m
         /\ \A n \in 1..Len(result) :
              result[n].leaf =>
                result[n].value = processed[LastAt(result[n].path)].value

-----------------------------------------------------------------------------
(* C10. Value transformer. *)

\* C10: the value bound to the constant of a file is '/' + relativePath in
\* static mode and in callback mode without transformPathValue; in callback
\* mode with transformPathValue it is exactly the string that
\* transformPathValue(filePath, relativePath) returned.
C10_ValueTransformer ==
  \A i \in 1..Len(processed) :
    LET p == processed[i] IN
    Inserted(p) =>
      /\ (~isTsConfig(config) \/ config.transformPathValue = Undefined)
           => p.value = <<"/">> \o RelOf(p.file)
      /\ (isTsConfig(config) /\ config.transformPathValue # Undefined)
           => \E c \in 1..Len(calls) :
                /\ calls[c].fn = "transformPathValue"
                /\ calls[c].filePath = p.file
                /\ calls[c].relativePath = RelOf(p.file)
                /\ calls[c].ret = p.value
      /\ (isTsConfig(config) /\ config.transformPathValue = "assets")
           => p.value = <<"/","a","s","s","e","t","s","/">> \o RelOf(p.file)
      /\ i = Len(processed) =>
           \E n \in LeavesAt(KeyPath(p)) : result[n].value = p.value

\* image.png was emitted with the value the user function returned
C10_Witness ==
  /\ status = "done"
  /\ config.transformPathValue = "assets"
  /\ \E n \in 1..Len(result) :
       /\ result[n].leaf
       /\ result[n].value = <<"/","a","s","s","e","t","s","/","i","m","a","g","e",".","p","n","g">>

-----------------------------------------------------------------------------
(* C11. Inclusion when no exclude pattern matches. *)

\* an entry of excludePatterns matches the relative path
PatternMatches(rel) ==
  \E i \in 1..Len(config.excludePatterns) :
    regExpTest(compileRegExp(replaceStar(config.excludePatterns[i])), rel)

HasInvalidPattern ==
  \E i \in 1..Len(config.excludePatterns) :
    ~isValidRegExp(replaceStar(config.excludePatterns[i]))

\* the configuration has a pathToVariableName field that holds a function
CallbackMode == config.pathToVariableName \notin {Undefined, NotAFunction}

\* C11: when no exclude pattern matches a file, then in callback mode with
\* shouldIncludeFile present the file is included if and only if
\* shouldIncludeFile(filePath, relativePath) returns true; in callback mode
\* without it, and in static mode always (even if the object carries a
\* shouldIncludeFile field), the file is included.
C11_InclusionWithoutMatch ==
  \A i \in 1..Len(processed) :
    LET p   == processed[i]
        rel == RelOf(p.file)
    IN  (~HasInvalidPattern /\ ~PatternMatches(rel)) =>
          IF CallbackMode /\ config.shouldIncludeFile # Undefined
            THEN config.shouldIncludeFile # "throws" =>
                   (p.included <=>
                      callShouldIncludeFile(config.shouldIncludeFile, p.file, rel))
            ELSE p.included

\* a static configuration that carries a shouldIncludeFile field which would
\* reject .png files, and a .png file that was included all the same
C11_Witness ==
  /\ status = "done"
  /\ ~CallbackMode
  /\ config.shouldIncludeFile = "notPng"
  /\ \E i \in 1..Len(processed) :
       /\ processed[i].included
       /\ endsWith(processed[i].file, <<".","p","n","g">>)
       /\ ~PatternMatches(RelOf(processed[i].file))

-----------------------------------------------------------------------------
(* C12. Empty input. *)

\* C12: when the file list is empty, or every file is excluded, the output is
\* exactly the fixed header comment, with no constant and no namespace
\* declaration.
C12_EmptyInput ==
  (status = "done" /\ \A i \in 1..Len(processed) : ~processed[i].included) =>
    /\ output = << "/**", "\n",
                   " * This file is auto-generated by public-asset-link.", "\n",
                   " * Do not edit this file directly.", "\n",
                   " */", "\n",
                   "\n" >>
    /\ \A n \in 1..Len(output) :
         output[n] \notin {"export const ", "export namespace "}

\* a finished run over two files, both excluded
C12_Witness ==
  /\ status = "done"
  /\ Len(files) = 2
  /\ \A i \in 1..Len(processed) : ~processed[i].included
  /\ output = Header

-----------------------------------------------------------------------------
(* C13. Idempotence of the path normalizer. *)

\* C13 as stated: relativizing the relative path of a file gives the same
\* relative path again, getRelativePath(getRelativePath(p)) = getRelativePath(p).
C13_RelativePathIdempotent ==
  \A i \in 1..Len(processed) :
    getRelativePath(processed[i].relativePath, config) = processed[i].relativePath

-----------------------------------------------------------------------------
(* C14. Errors of the user functions. *)

\* the user function of the configuration that throws, reached at the first
\* file: the configurations that carry one have no exclude pattern and no
\* other function that could end the run before
ThrowingFunction ==
  CASE config.pathToVariableName = "throws" -> "pathToVariableName"
    [] config.transformPathValue = "throws" -> "transformPathValue"
    [] config.shouldIncludeFile = "throws"  -> "shouldIncludeFile"
    [] OTHER                                -> "none"

ErrorOf(fn) ==
  CASE fn = "pathToVariableName" -> "Error: pathToVariableName"
    [] fn = "transformPathValue" -> "Error: transformPathValue"
    [] fn = "shouldIncludeFile"  -> "Error: shouldIncludeFile"
    [] OTHER                     -> "none"

\* C14: if a user-supplied pathToVariableName, transformPathValue or
\* shouldIncludeFile throws while a file is processed, generateAssetVariables
\* does not catch it: the same error leaves the call, the run is aborted at
\* that file (no later file is processed) and no text is returned.
C14_CallbackErrorPropagates ==
  (CallbackMode /\ ThrowingFunction # "none" /\ config.excludePatterns = <<>>
     /\ Len(processed) >= 1) =>
    /\ Len(processed) = 1
    /\ status = "error"
    /\ thrown = ErrorOf(ThrowingFunction)
    /\ output = <<>>
    /\ calls[Len(calls)].fn = ThrowingFunction
    /\ calls[Len(calls)].threw
    /\ processed[1].file = files[1]

\* transformPathValue threw at the first of three files, in a directory
C14_Witness ==
  /\ status = "error"
  /\ Len(files) = 3
  /\ Len(processed) = 1
  /\ config.groupByDirectory
  /\ config.transformPathValue = "throws"
  /\ thrown = "Error: transformPathValue"
  /\ Len(split(processed[1].relativePath, "/")) = 2

-----------------------------------------------------------------------------
(* C15. No output on failure. *)

\* C15: when a generation run fails at any step (the scan rejects, a user
\* function throws, an exclude pattern does not compile), the output file is
\* not written in that run and keeps its previous content: the output file
\* only ever changes in a step of a run that raised nothing, and what it then
\* holds is the complete text that generateAssetVariables returned.
C15_NoOutputOnFailure ==
  [][ fsys'.outputFile # fsys.outputFile =>
        /\ status = "done" /\ thrown = "none"
        /\ Len(processed) = Len(files)
        /\ output = Header \o generateCode(result, <<>>, 0)
        /\ fsys'.outputFile = [exists |-> TRUE, content |-> output] ]_vars

\* a run that failed with a TypeError after it had put a constant in the tree,
\* and the output file of an earlier generation still in place
C15_Witness ==
  /\ pc = "idle"
  /\ thrown = "TypeError"
  /\ result # <<>>
  /\ fsys.outputFile = [exists |-> TRUE, content |-> OldContent]

-----------------------------------------------------------------------------
(* C16. Exclude patterns that do not compile. *)

\* the first entry of excludePatterns that is not a regular expression
FirstInvalid ==
  CHOOSE k \in 1..Len(config.excludePatterns) :
    /\ ~isValidRegExp(replaceStar(config.excludePatterns[k]))
    /\ \A j \in 1..(k - 1) : isValidRegExp(replaceStar(config.excludePatterns[j]))

\* an entry before the k-th matches the relative path
MatchedBefore(rel, k) ==
  \E j \in 1..(k - 1) :
    regExpTest(compileRegExp(replaceStar(config.excludePatterns[j])), rel)

\* C16 as stated: if excludePatterns has an entry that is not a regular
\* expression, generation over a non-empty file list fails with that error.
C16_AsStated ==
  (HasInvalidPattern /\ Len(files) > 0 /\ status \in {"done", "error"}) =>
    status = "error" /\ thrown = "SyntaxError"

\* C16, amended: if excludePatterns has an entry that is not a regular
\* expression, generation fails with that error at the first file that no
\* earlier entry of excludePatterns matches, instead of treating the pattern
\* as non-matching; when an earlier entry matches every file the entry is
\* never compiled and generation completes, every file excluded.
C16_PatternCompilationError ==
  (HasInvalidPattern /\ status \in {"done", "error"}) =>
    LET reaching == { i \in 1..Len(files) :
                        ~MatchedBefore(RelOf(files[i]), FirstInvalid) }
    IN  IF reaching = {}
          THEN /\ status = "done"
               /\ output = Header
          ELSE /\ status = "error"
               /\ thrown = "SyntaxError"
               /\ output = <<>>
               /\ Len(processed) \in reaching
               /\ \A i \in reaching : Len(processed) <= i

\* the error raised at the second file, the first one being matched by the
\* pattern before the invalid one
C16_Witness ==
  /\ HasInvalidPattern
  /\ status = "error"
  /\ thrown = "SyntaxError"
  /\ Len(processed) = 2
  /\ MatchedBefore(RelOf(files[1]), FirstInvalid)

-----------------------------------------------------------------------------
(* C17. Mode discrimination. *)

\* C17: a configuration is in callback mode if and only if it has a
\* pathToVariableName field whose value is a function; every decision of a
\* run uses that one mode: in static mode no user function is invoked, names
\* follow namingStrategy, values are '/' + relativePath and inclusion is by
\* pattern alone, whatever functions the object carries; in callback mode
\* every name is what pathToVariableName returned.
C17_ModeDiscrimination ==
  /\ isTsConfig(config) <=> CallbackMode
  /\ ~CallbackMode =>
       /\ calls = <<>>
       /\ \A i \in 1..Len(processed) :
            LET p == processed[i] IN
            /\ ~HasInvalidPattern => (p.included <=> ~PatternMatches(RelOf(p.file)))
            /\ Inserted(p) =>
                 /\ p.varName = config.variablePrefix \o NamedAsClaimed(RelOf(p.file), config)
                 /\ p.value = <<"/">> \o RelOf(p.file)
  /\ CallbackMode =>
       \A i \in 1..Len(processed) :
         Inserted(processed[i]) =>
           \E n \in 1..Len(calls) :
             /\ calls[n].fn = "pathToVariableName"
             /\ calls[n].filePath = processed[i].file
             /\ ~calls[n].threw
             /\ calls[n].ret = processed[i].varName

\* an object whose pathToVariableName is a string and which carries
\* transformPathValue: image.png got the static name and the default value
C17_Witness ==
  /\ status = "done"
  /\ config.pathToVariableName = NotAFunction
  /\ config.transformPathValue = "assets"
  /\ \E i \in 1..Len(processed) :
       /\ Inserted(processed[i])
       /\ processed[i].varName = <<"i","m","a","g","e">>
       /\ processed[i].value = <<"/","i","m","a","g","e",".","p","n","g">>

-----------------------------------------------------------------------------
(* C18. loadConfig recovers from configuration errors. *)

\* the file the --config option of the running command names
OptionFile ==
  IF optionsConfig = ConfigJsonPath THEN fsys.configJson ELSE fsys.configTs

\* C18: when the configuration file does not exist, its JSON does not parse,
\* or evaluating the .ts/.js module throws, loadConfig raises no error and
\* returns DEFAULT_JSON_CONFIG.
C18_LoadConfigRecovers ==
  /\ pc # "crashed"
  /\ (pc = "glob" /\ (~OptionFile.exists \/ ~OptionFile.loads)) =>
       /\ config.publicDir = PublicDir
       /\ config.outputFile = OutputFile
       /\ config.excludePatterns = <<DotfilePattern, NodeModulesPattern>>
       /\ config.namingStrategy = "camelCase"
       /\ config.includeExtensionsInNames = FALSE
       /\ config.variablePrefix = <<>>
       /\ config.groupByDirectory = TRUE
       /\ config.pathToVariableName = Undefined
       /\ config.transformPathValue = Undefined
       /\ config.shouldIncludeFile = Undefined

\* generate --config ./asset-link.config.ts with a module that throws when it
\* is evaluated: the run goes on with the default configuration
C18_Witness ==
  /\ pc = "glob"
  /\ optionsConfig = ConfigTsPath
  /\ fsys.configTs.exists /\ ~fsys.configTs.loads
  /\ config = readFields(DEFAULT_JSON_CONFIG)

-----------------------------------------------------------------------------
(* C19. init never overwrites a configuration file. *)

\* C19: if the target file of init (asset-link.config.json, or
\* asset-link.config.ts with --typescript) exists, nothing is written and the
\* file is left unchanged; if it does not exist, exactly that file is created.
C19_InitNeverOverwrites ==
  [][ /\ fsys.configJson.exists => fsys'.configJson = fsys.configJson
      /\ fsys.configTs.exists => fsys'.configTs = fsys.configTs
      /\ (~fsys.configJson.exists /\ fsys'.configJson.exists) =>
           /\ fsys'.configJson.object = DEFAULT_JSON_CONFIG
           /\ fsys'.configTs = fsys.configTs
           /\ fsys'.outputFile = fsys.outputFile
      /\ (~fsys.configTs.exists /\ fsys'.configTs.exists) =>
           /\ fsys'.configTs.object = TemplateTsConfig
           /\ fsys'.configJson = fsys.configJson
           /\ fsys'.outputFile = fsys.outputFile ]_vars

\* init ran on a project whose asset-link.config.json existed: the file is as
\* it was and no other configuration file was made
C19_Witness ==
  /\ logged = <<"Configuration file already exists">>
  /\ fsys.configJson.exists
  /\ fsys.configJson.object = [excludePatterns |-> <<>>]
  /\ ~fsys.configTs.exists

-----------------------------------------------------------------------------
(* C20. A public directory that does not exist. *)

\* C20 as stated: when the configured public directory does not exist, a
\* generation run does not write the output file.
C20_MissingPublicDirNotWritten ==
  [][ ~fsys.publicDir.exists => fsys'.outputFile = fsys.outputFile ]_vars

-----------------------------------------------------------------------------
(* C21. The same leaf name in different directories. *)

\* where the claim places the constant of each file of the input
Places == [i \in 1..Len(files) |-> PlaceOf(files[i])]

\* the files i and j have the same leaf identifier and lie in directories
\* whose identifiers differ
SameLeafApart(place, i, j) ==
  /\ i # j
  /\ Len(place[i]) > 1 /\ Len(place[j]) > 1
  /\ place[i][Len(place[i])] = place[j][Len(place[j])]
  /\ SubSeq(place[i], 1, Len(place[i]) - 1) # SubSeq(place[j], 1, Len(place[j]) - 1)
  /\ ~isPrefix(place[i], place[j]) /\ ~isPrefix(place[j], place[i])

\* no third file is inserted on the way to the place of the file i, or
\* through it
Undisturbed(place, i, j) ==
  \A k \in (1..Len(processed)) \ {i, j} :
    Inserted(processed[k]) =>
      /\ ~isPrefix(KeyPath(processed[k]), place[i])
      /\ ~isPrefix(place[i], KeyPath(processed[k]))

-----------------------------------------------------------------------------
(* C22. A directory whose identifier names a Leaf. *)

\* the tree holds a Leaf on the way to the place of the file
LeafOnTheWay(tree, file) ==
  \E n \in 1..Len(tree) :
    tree[n].leaf /\ isStrictPrefix(tree[n].path, PlaceOf(file))

\* C22 as stated: when a directory identifier of an included file names a
\* Leaf of the Group being walked, the Leaf is replaced by a new Group and the
\* file is inserted beneath it: no error is raised and the file is not lost.
C22_LeafCoercedToGroup ==
  [][ ( /\ status = "running" /\ idx <= Len(files)
        /\ config.groupByDirectory /\ ~Raising(config)
        /\ shouldIncludeFile(files[idx], config)
        /\ LeafOnTheWay(result, files[idx]) ) =>
        /\ status' # "error"
        /\ \E n \in 1..Len(result') :
             /\ result'[n].leaf
             /\ result'[n].path = PlaceOf(files[idx]) ]_vars

-----------------------------------------------------------------------------
(* C23. A file whose identifier names a Group. *)

\* the tree holds a Group at the place of the file
GroupInPlace(tree, file) ==
  \E n \in 1..Len(tree) : ~tree[n].leaf /\ tree[n].path = PlaceOf(file)

\* C23: when the leaf identifier of an included file is the identifier of a
\* Group of the same parent Group, the Group is replaced by the Leaf: after
\* the file is processed the tree holds at that place one Leaf valued by the
\* file and nothing beneath it, and the text emitted renders that tree.
C23_GroupReplacedByLeaf ==
  [][ /\ ( /\ status = "running" /\ idx <= Len(files)
           /\ config.groupByDirectory /\ ~Raising(config)
           /\ shouldIncludeFile(files[idx], config)
           /\ GroupInPlace(result, files[idx]) ) =>
           /\ status' = "running"
           /\ \A n \in 1..Len(result') :
                /\ ~isStrictPrefix(PlaceOf(files[idx]), result'[n].path)
                /\ result'[n].path = PlaceOf(files[idx]) =>
                     /\ result'[n].leaf
                     /\ result'[n].value = transformPathValue(files[idx], config)
           /\ Cardinality({ n \in 1..Len(result') :
                              result'[n].path = PlaceOf(files[idx]) }) = 1
      /\ status' = "done" => output' = Header \o generateCode(result', <<>>, 0) ]_vars

\* images.txt was processed after images/icon.png: the images namespace and
\* its icon constant are gone and one images constant is emitted
C23_Witness ==
  /\ status = "done" /\ config.groupByDirectory
  /\ Len(files) = 2
  /\ files[1] = AbsPath(RelImagesIcon) /\ files[2] = AbsPath(RelImagesTxt)
  /\ Inserted(processed[1]) /\ Inserted(processed[2])
  /\ isStrictPrefix(KeyPath(processed[2]), KeyPath(processed[1]))
  /\ Len(result) = 1 /\ result[1].leaf
  /\ result[1].path = KeyPath(processed[2])
  /\ \A n \in 1..Len(output) : output[n] # "export namespace "

-----------------------------------------------------------------------------
(* C24. Directory naming in callback mode. *)

\* C24 as stated: in callback mode, for every non-empty directory segment s
\* of a file that was inserted, the user pathToVariableName function was
\* called with s as its first argument and s as its second (relative path)
\* argument, and what it returned names the namespace.
C24_DirectoryCallbackArguments ==
  (config.groupByDirectory /\ isTsConfig(config) /\ ~Raising(config)) =>
    \A i \in 1..Len(processed) :
      Inserted(processed[i]) =>
        \E dirs \in { DirsOf(RelOf(processed[i].file)) } :
          \A n \in 1..Len(dirs) :
            dirs[n] # <<>> =>
              \E c \in 1..Len(calls) :
                /\ calls[c].fn = "pathToVariableName"
                /\ calls[c].filePath = dirs[n]
                /\ calls[c].relativePath = dirs[n]
                /\ ~calls[c].threw
                /\ calls[c].ret = processed[i].groupPath[n]

-----------------------------------------------------------------------------
(* C25. Directory naming in static mode. *)

\* C25 as stated: in static mode the namespace identifier of a directory
\* segment s is the static naming algorithm applied to s itself (extension
\* rule, character replacement, case convention, prefix), for every segment
\* name, be it the name of the public directory or a name with a dot.
C25_StaticDirectoryNaming ==
  (config.groupByDirectory /\ ~isTsConfig(config)) =>
    \A i \in 1..Len(processed) :
      Inserted(processed[i]) =>
        \E dirs \in { DirsOf(RelOf(processed[i].file)) } :
          /\ Len(processed[i].groupPath) = Len(dirs)
          /\ \A n \in 1..Len(dirs) :
               processed[i].groupPath[n] =
                 config.variablePrefix \o NamedAsClaimed(dirs[n], config)

-----------------------------------------------------------------------------
(* The declarations of an emitted text, read back line by line. *)

\* the lines of a text, each ended by a line feed
linesOf(text) ==
  LET feeds   == { n \in 1..Len(text) : text[n] = "\n" }
      feed(k) == CHOOSE n \in feeds : Cardinality({ m \in feeds : m <= n }) = k
  IN  [k \in 1..Cardinality(feeds) |->
         SubSeq(text, IF k = 1 THEN 1 ELSE feed(k - 1) + 1, feed(k) - 1)]

\* the number of spaces a line starts with
LeadingSpaces(line) ==
  IF \A n \in 1..Len(line) : line[n] = " " THEN Len(line)
  ELSE (CHOOSE n \in 1..Len(line) :
          line[n] # " " /\ \A m \in 1..(n - 1) : line[m] = " ") - 1

IsConstLine(body) ==
  /\ Len(body) >= 3
  /\ body[1] = "export const "
  /\ body[Len(body)] = "';"
  /\ \E q \in 2..(Len(body) - 1) : body[q] = " = '"

\* where the identifier of a const line ends
AssignAt(body) ==
  CHOOSE q \in 2..(Len(body) - 1) :
    body[q] = " = '" /\ \A m \in 2..(q - 1) : body[m] # " = '"

IsNamespaceLine(body) ==
  /\ Len(body) >= 2
  /\ body[1] = "export namespace "
  /\ body[Len(body)] = " {"

OpenPath(open) == [n \in 1..Len(open) |-> open[n].key]

RECURSIVE readLines(_, _, _)
\* open: the namespaces not closed yet, with the indentation of their opening
\* lines; acc.decls: the declarations read, in the order of the text; acc.ok:
\* every line is a declaration or closes the innermost open namespace with
\* the indentation of its opening line
readLines(lines, open, acc) ==
  IF lines = <<>> THEN [decls |-> acc.decls, ok |-> acc.ok /\ open = <<>>]
  ELSE LET line   == Head(lines)
           indent == LeadingSpaces(line)
           body   == SubSeq(line, indent + 1, Len(line))
       IN  IF IsConstLine(body)
             THEN readLines(Tail(lines), open,
                    [acc EXCEPT !.decls = Append(@,
                       [ path   |-> Append(OpenPath(open),
                                           SubSeq(body, 2, AssignAt(body) - 1)),
                         leaf   |-> TRUE,
                         value  |-> SubSeq(body, AssignAt(body) + 1, Len(body) - 1),
                         indent |-> indent,
                         depth  |-> Len(open) ])])
           ELSE IF IsNamespaceLine(body)
             THEN readLines(Tail(lines),
                    Append(open, [key |-> SubSeq(body, 2, Len(body) - 1),
                                  indent |-> indent]),
                    [acc EXCEPT !.decls = Append(@,
                       [ path   |-> Append(OpenPath(open),
                                           SubSeq(body, 2, Len(body) - 1)),
                         leaf   |-> FALSE,
                         value  |-> <<>>,
                         indent |-> indent,
                         depth  |-> Len(open) ])])
           ELSE IF body = <<"}">> /\ open # <<>>
             THEN readLines(Tail(lines), SubSeq(open, 1, Len(open) - 1),
                    [acc EXCEPT !.ok = @ /\ indent = open[Len(open)].indent])
           ELSE [decls |-> acc.decls, ok |-> FALSE]

\* what the text of `output` declares after the header
Declarations ==
  readLines(linesOf(SubSeq(output, Len(Header) + 1, Len(output))),
            <<>>, [decls |-> <<>>, ok |-> TRUE])

-----------------------------------------------------------------------------
(* C26. Emission order. *)

\* the first file of the input inserted at the key path P or beneath it
FirstInsertion(P) ==
  CHOOSE i \in 1..Len(processed) :
    /\ Inserted(processed[i]) /\ isPrefix(P, KeyPath(processed[i]))
    /\ \A m \in 1..(i - 1) :
         ~(Inserted(processed[m]) /\ isPrefix(P, KeyPath(processed[m])))

\* C26 as stated: inside every Group the declarations are emitted in the
\* order in which their identifiers were first inserted into that Group, for
\* every set of identifiers, identifiers made of digits included.
C26_EmissionOrder ==
  status = "done" =>
    \E r \in { Declarations } :
      /\ r.ok
      /\ \A a, b \in 1..Len(r.decls) :
           ( /\ a < b
             /\ Len(r.decls[a].path) = Len(r.decls[b].path)
             /\ SubSeq(r.decls[a].path, 1, Len(r.decls[a].path) - 1)
                  = SubSeq(r.decls[b].path, 1, Len(r.decls[b].path) - 1) ) =>
             \E earlier \in { FirstInsertion(r.decls[a].path) },
                later \in { FirstInsertion(r.decls[b].path) } : earlier < later

-----------------------------------------------------------------------------
(* C27. Emitter structure. *)

\* C27: in every output, after the header, every line is a declaration or a
\* closing brace; a declaration at nesting depth d is indented by 2*d spaces;
\* every 'export namespace N {' line is closed, after all of its children, by
\* a '}' line of the same indentation; each Leaf of the tree gives exactly
\* one line 'export const <identifier> = '<value>';' under the namespaces of
\* its Groups, with its value verbatim between the quotes, and each Group
\* exactly one namespace.
C27_EmitterStructure ==
  status = "done" =>
    /\ isPrefix(Header, output)
    /\ output[Len(output)] = "\n"
    /\ \E r \in { Declarations } :
         /\ r.ok
         /\ Len(r.decls) = Len(result)
         /\ \A d \in 1..Len(r.decls) : r.decls[d].indent = 2 * r.decls[d].depth
         /\ \A n \in 1..Len(result) :
              /\ Cardinality({ d \in 1..Len(r.decls) :
                                 r.decls[d].path = result[n].path }) = 1
              /\ \E d \in 1..Len(r.decls) :
                   /\ r.decls[d].path = result[n].path
                   /\ r.decls[d].leaf = result[n].leaf
                   /\ r.decls[d].value = result[n].value
                   /\ r.decls[d].depth = Len(result[n].path) - 1
         /\ \A i \in 1..Len(processed) :
              (Inserted(processed[i]) /\ LastAt(KeyPath(processed[i])) = i
                 /\ ~OverwrittenAfter(KeyPath(processed[i]), i)) =>
                \E d \in 1..Len(r.decls) :
                  /\ r.decls[d].path = KeyPath(processed[i])
                  /\ r.decls[d].leaf
                  /\ r.decls[d].value = transformPathValue(processed[i].file, config)

\* images/7/b.png was grouped: its constant is declared two namespaces deep
\* on a line indented by four spaces
C27_Witness ==
  /\ status = "done" /\ config.groupByDirectory
  /\ \E i \in 1..Len(files) : files[i] = AbsPath(RelDigitDir)
  /\ \E r \in { Declarations } :
       \E d \in 1..Len(r.decls) :
         /\ r.decls[d].leaf /\ r.decls[d].depth = 2 /\ r.decls[d].indent = 4
         /\ r.decls[d].value = <<"/">> \o RelDigitDir

-----------------------------------------------------------------------------
(* C28. Overlapping runs of the watch command. *)

\* the texts a run that read the directory `dir` writes
Renderings(dir, cfg) ==
  { Header \o generateCode(GroupedAlone(<<>>, fs, cfg).tree, <<>>, 0) :
      fs \in globResults([EmptyProject EXCEPT !.publicDir = dir], cfg) }

\* C28 as stated: when file system events trigger overlapping generation
\* runs, a run that scanned the directory earlier never overwrites the
\* output of a run that scanned it later, and once every triggered run has
\* finished (no glob having failed, no pattern or user function raising) the
\* output file holds the rendering of the most recent scan.
C28_WatchConvergence ==
  [][ /\ watcher'.written >= watcher.written
      /\ ( /\ pc' = "watching" /\ watcher'.pending = <<>>
           /\ watcher'.scans > 0
           /\ ~watcher'.rejected /\ ~Raising(config') ) =>
           /\ watcher'.written = watcher'.scans
           /\ fsys'.outputFile.content \in Renderings(watcher'.latest, config') ]_vars

====
